---- MODULE Spec2Model ----
(***************************************************************************)
(* State-machine model of the RTLS pipeline:                               *)
(*   - ingestor/main.py : bus receive callback, bounded queues, main loop, *)
(*                        batch flushers, known-ID cache, shutdown         *)
(*   - locator/main.py  : per-uid write throttle of the position loop      *)
(*   - the store tables both processes share                               *)
(* Time is counted in whole seconds (the code's millisecond wall clock     *)
(* divided by 1000, so that every instant fits a 32-bit integer).          *)
(***************************************************************************)
EXTENDS Integers, Sequences, FiniteSets, TLC

\* ------------------------------------------------------------------ bounds
MaxMsgs == 2          \* bus messages delivered in one run
MaxTime == 2          \* horizon of the ingestor's monotonic clock (s)
MaxStoreOps == 1      \* registrations / deletions done by other actors
ScanQCap == 1         \* asyncio.Queue(maxsize=10000), scaled down
StatusQCap == 1       \* asyncio.Queue(maxsize=2000), scaled down
EventQCap == 1        \* asyncio.Queue(maxsize=2000), scaled down
MaxBurst == 6         \* bus messages delivered in one run of a burst
BurstQCap == 2        \* capacity of each queue in a burst, scaled down
MaxScans == 2         \* scan rows stored while the locator runs
MaxEstScans == 3      \* scan rows in the table a single tick estimates from
MaxWsMsgs == 3        \* messages the pollers enqueue in one run
PositionsQCap == 2    \* asyncio.Queue(maxsize=1000), scaled down
UpdateQCap == 1       \* asyncio.Queue(maxsize=100), scaled down
MaxFaults == 1        \* connection losses and failed store calls of the poller
PollHorizon == 3      \* seconds of the poller's clock that are explored
MaxPollRows == 2      \* rows in a table a poller reads
MaxPollMsgs == 4      \* messages the pollers produce in a run without clients
LocHorizon == 5       \* seconds of the locator's monotonic clock that are explored
MaxBusFaults == 1     \* refused connects and unexpected disconnects of the bus client

\* ------------------------------------------------- configuration (env vars)
BATCH_MAX_SIZE == 4
BATCH_MAX_AGE_S == 1
IDS_REFRESH_S == 2
TS_MIN_EPOCH_MS == 1514764800
YEAR_MS == 365 * 24 * 3600
DRAIN_SCANS == 100
DRAIN_STATUS == 50
DRAIN_EVENTS == 50
WallEpoch == 1793000000       \* wall clock when the ingestor starts

\* locator configuration (env vars); POLL_INTERVAL in whole seconds
WINDOW_SECONDS == 2
QUERY_WINDOW_FACTOR == 2
POLL_INTERVAL == 2
WRITE_THROTTLE_S == 5
ERROR_PAUSE_S == 1
\* src/api/main.py
POSITIONS_POLL_S == 2         \* asyncio.sleep(2) of poll_positions
POSITIONS_RECENT_S == 10      \* timedelta(seconds=10)
TX_POWER_DBM_AT_1M == -59
PATH_LOSS_EXPONENT == 2
TOP_K == 3
WEIGHT_DIST_CLAMP_DM == 5     \* WEIGHT_DIST_CLAMP_M, 0.5 m, in dm
WeightScale == 100000         \* the unit in which weights are whole numbers

AnchorIds == {"A1", "A2", "Z"}     \* Z: not registered when the run starts
WearableIds == {"W1", "V"}         \* V: not registered when the run starts
Kinds == {"scans", "status", "events"}
NoId == "-"
NoTs == <<>>
NoRssi == 0                   \* status and event payloads carry no rssi

\* the api's queues (positions_queue, stats_queue, scans_queue,
\* anchor_status_queue) and the websocket clients of a run
WsQueues == {"positions", "stats", "scans", "anchor_status"}
Clients == {"c1", "c2"}
NoTask == [st |-> "none", item |-> 0]                  \* Optional[int] = None

VARIABLES
  \* the store
  dbAnchors, dbWearables, storeOps,
  scans, anchor_status, events,
  \* the ingestor
  allow_fallback,
  known,
  scan_q, status_q, event_q,
  scans_buf, status_buf, events_buf,
  last_flush, timeout_at, stop,
  pc, phase, fkind, valid, skipped, mode, exc,
  mqtt_connected, pool_open,
  \* the bus session: the topic filters subscribed in it, the retained value
  \* of rtls/ingestor/status, the successful connects and the faults so far
  mqtt_subs, mqtt_status, mqtt_connects, mqtt_faults,
  \* the known-ID reload under way (`refreshed`), the reload each set of the
  \* cache came from, and the reloads so far
  refreshed, known_gen, loads,
  mono,
  \* history of the run
  delivered, dropped, handed, rejected, received,
  \* the locator
  positions,
  loc_pc, loc_mono, loc_wake, loc_anchors, loc_records, loc_todo,
  last_written_ts_monotonic,
  loc_skips,
  top_k,
  \* the rows of anchors and wearables in the order they were inserted
  anchor_rows, wearable_rows,
  \* the api's update queues and its websocket handlers
  ws_q, ws_getters, ws_task, ws_pc, ws_rows, ws_out, ws_sent, ws_clients,
  ws_next, ws_taken,
  \* which clients' connections are open, and the messages whose send raised
  ws_alive, ws_lost,
  \* the messages a poller produced while its queue was full
  ws_dropped,
  \* the positions poller: its position, its connection (0 is None), the
  \* connections of the process that are open, how many it has opened, the
  \* faults so far, its clock, its wake-up time, and what it has produced
  poll_pc, poll_connection, poll_conns, poll_nconn, poll_faults, poll_mono, poll_wake,
  poll_log

storeVars == <<dbAnchors, dbWearables, storeOps, scans, anchor_status, events>>
queueVars == <<scan_q, status_q, event_q>>
bufVars == <<scans_buf, status_buf, events_buf>>
flushVars == <<fkind, valid, skipped, mode>>
busVars == <<mqtt_subs, mqtt_status, mqtt_connects, mqtt_faults>>
connVars == <<mqtt_connected, pool_open, busVars>>
loadVars == <<refreshed, known_gen, loads>>
ingVars == <<allow_fallback, known, queueVars, bufVars, last_flush, timeout_at,
             stop, pc, phase, flushVars, exc, connVars, loadVars, mono,
             delivered, dropped, handed, rejected, received>>
locVars == <<positions, loc_pc, loc_mono, loc_wake, loc_anchors, loc_records,
             loc_todo, last_written_ts_monotonic, loc_skips, top_k>>
tblVars == <<anchor_rows, wearable_rows>>
pollVars == <<poll_pc, poll_connection, poll_conns, poll_nconn, poll_faults, poll_mono,
              poll_wake, poll_log>>
wsVars == <<ws_q, ws_getters, ws_task, ws_pc, ws_rows, ws_out, ws_sent, ws_clients,
            ws_next, ws_taken, ws_alive, ws_lost, ws_dropped, pollVars>>
vars == <<storeVars, ingVars, locVars, tblVars, wsVars>>

\* ------------------------------------------------------------- helpers
Wall == WallEpoch + mono

Max(a, b) == IF a >= b THEN a ELSE b
Min(a, b) == IF a <= b THEN a ELSE b

Range(s) == {s[i] : i \in 1..Len(s)}
Ns(s) == {s[i].n : i \in 1..Len(s)}

\* ------------------------------------------------------ timestamp (_TsMixin)
\* coerce_ts_dt raises ValueError: ts missing and fallback disabled
CoerceRaises(ts, fallback) == ts = NoTs /\ ~fallback

TsOutOfRangeLowOnly(ts_ms, now_ms) == ts_ms < TS_MIN_EPOCH_MS

\* the branch of coerce_ts_dt that replaces an out-of-range ts by now_ms
TsOutOfRange(ts_ms, now_ms) == ts_ms < TS_MIN_EPOCH_MS \/ ts_ms > now_ms + YEAR_MS

\* coerce_ts_dt: the instant that is persisted (when it does not raise)
coerce_ts_dt(ts, now_ms) ==
  IF ts = NoTs THEN now_ms
  ELSE IF TsOutOfRange(ts[1], now_ms) THEN now_ms ELSE ts[1]

\* ----------------------------------------------------------- KnownIds
\* KnownIds.load: both sets read from the store, stamped with the monotonic clock
Load == [anchors |-> dbAnchors, wearables |-> dbWearables, last_loaded_s |-> mono]

ensure_fresh_when_older(kid) ==
  IF mono - kid.last_loaded_s > IDS_REFRESH_S THEN Load ELSE kid

\* KnownIds.ensure_fresh: the cache after the call
ensure_fresh(kid) ==
  IF mono - kid.last_loaded_s >= IDS_REFRESH_S THEN Load ELSE kid

\* ----------------------------------------------------------- flush filters
UnknownFkBoth(k, msg, kid) ==
  CASE k = "scans"  -> msg.anchor_id \notin kid.anchors /\ msg.uid \notin kid.wearables
    [] k = "status" -> msg.anchor_id \notin kid.anchors
    [] k = "events" -> msg.uid \notin kid.wearables

\* the FK gate of each flusher: TRUE when the record is skipped as unknown
UnknownFk(k, msg, kid) ==
  CASE k = "scans"  -> msg.anchor_id \notin kid.anchors \/ msg.uid \notin kid.wearables
    [] k = "status" -> msg.anchor_id \notin kid.anchors
    [] k = "events" -> msg.uid \notin kid.wearables

\* one tuple of `valid`: the message with its normalized ts (now_ms is kept
\* beside it as the instant of normalization)
Row(msg, now_ms) ==
  [n |-> msg.n, anchor_id |-> msg.anchor_id, uid |-> msg.uid,
   raw |-> msg.ts, ts |-> coerce_ts_dt(msg.ts, now_ms), now_ms |-> now_ms,
   rssi |-> msg.rssi]

\* the for-loop of a flusher: `valid`, in batch order
FilterBatch(k, batch, kid, now_ms) ==
  LET kept == SelectSeq(batch, LAMBDA m :
                  ~CoerceRaises(m.ts, allow_fallback) /\ ~UnknownFk(k, m, kid))
  IN [i \in 1..Len(kept) |-> Row(kept[i], now_ms)]

\* skipped_unknown / skipped of a flusher
CountSkipped(k, batch, kid) ==
  Cardinality({i \in 1..Len(batch) :
                  ~CoerceRaises(batch[i].ts, allow_fallback) /\ UnknownFk(k, batch[i], kid)})

\* ----------------------------------------------------------- the store
\* the foreign keys of the three tables, as the store enforces them on insert
FkHolds(k, row) ==
  CASE k = "scans"  -> row.anchor_id \in dbAnchors /\ row.uid \in dbWearables
    [] k = "status" -> row.anchor_id \in dbAnchors
    [] k = "events" -> row.uid \in dbWearables

BulkAcceptedFirstRow(k, rows) == FkHolds(k, rows[1])

\* conn.executemany(INSERT ...): all rows or ForeignKeyViolationError
BulkAccepted(k, rows) == \A i \in 1..Len(rows) : FkHolds(k, rows[i])

\* conn.execute(INSERT INTO scans ...) of the row-by-row retry
RowAccepted(row) == FkHolds("scans", row)

\* a row as it lands in its table; fk records what the store held at the insert
Stored(k, row) ==
  [n |-> row.n, anchor_id |-> row.anchor_id, uid |-> row.uid, raw |-> row.raw,
   ts |-> row.ts, now_ms |-> row.now_ms, rssi |-> row.rssi, fk |-> FkHolds(k, row)]

StoredAll(k, rows) == [i \in 1..Len(rows) |-> Stored(k, rows[i])]

BufOf(k) == CASE k = "scans" -> scans_buf [] k = "status" -> status_buf [] k = "events" -> events_buf
QueueOf(k) == CASE k = "scans" -> scan_q [] k = "status" -> status_q [] k = "events" -> event_q
TableOf(k) == CASE k = "scans" -> scans [] k = "status" -> anchor_status [] k = "events" -> events
CapOf(k) == CASE k = "scans" -> ScanQCap [] k = "status" -> StatusQCap [] k = "events" -> EventQCap

InsertInto(k, rows) ==
  /\ scans' = IF k = "scans" THEN scans \o rows ELSE scans
  /\ anchor_status' = IF k = "status" THEN anchor_status \o rows ELSE anchor_status
  /\ events' = IF k = "events" THEN events \o rows ELSE events

\* ------------------------------------------------------------------ Init
\* SUB_TOPIC_SCAN, SUB_TOPIC_STATUS, SUB_TOPIC_EVENTS as topic levels
SubPatterns == {<<"rtls", "anchor", "+", "scan">>, <<"rtls", "anchor", "+", "status">>,
                <<"rtls", "events">>}

\* no reload is under way
NoLoad == [anchors |-> {}, wearables |-> {}]

\* run() after build_mqtt_client returned, before the loop; `connected`: the
\* first CONNACK has been handled already
InitRun(connected) ==
  /\ storeOps = 0
  /\ scans = <<>> /\ anchor_status = <<>> /\ events = <<>>
  /\ known = [anchors |-> {"A1", "A2"}, wearables |-> {"W1"}, last_loaded_s |-> 0]
  /\ scan_q = <<>> /\ status_q = <<>> /\ event_q = <<>>
  /\ scans_buf = <<>> /\ status_buf = <<>> /\ events_buf = <<>>
  /\ last_flush = 0 /\ timeout_at = 0 /\ stop = FALSE
  /\ pc = "top" /\ phase = "loop" /\ fkind = "scans"
  /\ valid = <<>> /\ skipped = 0 /\ mode = "none" /\ exc = "none"
  /\ mqtt_connected = connected /\ pool_open = TRUE
  /\ mqtt_subs = IF connected THEN SubPatterns ELSE {}
  /\ mqtt_status = IF connected THEN "online" ELSE "none"
  /\ mqtt_connects = IF connected THEN 1 ELSE 0
  /\ mqtt_faults = 0
  /\ refreshed = NoLoad /\ known_gen = [anchors |-> 0, wearables |-> 0] /\ loads = 0
  /\ mono = 0
  /\ delivered = 0 /\ dropped = {} /\ handed = {} /\ rejected = {}
  /\ received = <<>>

InitIngestor == InitRun(TRUE)

\* the positions poller when its task is created; startup has opened
\* connection `conn`, or none (0) when asyncpg.connect failed there
InitPoller(conn) ==
  /\ poll_pc = "sleep"
  /\ poll_connection = conn
  /\ poll_conns = IF conn = 0 THEN {} ELSE {conn}
  /\ poll_nconn = conn
  /\ poll_faults = 0
  /\ poll_mono = 0 /\ poll_wake = 0
  /\ poll_log = <<>>

\* the api right after startup: empty queues, no websocket client
InitWsClients ==
  /\ ws_q = [q \in WsQueues |-> <<>>]
  /\ ws_getters = [q \in WsQueues |-> <<>>]
  /\ ws_task = [c \in Clients |-> [q \in WsQueues |-> NoTask]]
  /\ ws_pc = [c \in Clients |-> "closed"]
  /\ ws_rows = [c \in Clients |-> <<>>]
  /\ ws_out = [c \in Clients |-> <<>>]
  /\ ws_sent = [c \in Clients |-> <<>>]
  /\ ws_clients = {}
  /\ ws_next = 1
  /\ ws_taken = {}
  /\ ws_alive = [c \in Clients |-> TRUE]
  /\ ws_lost = {}
  /\ ws_dropped = {}

InitWs == InitWsClients /\ InitPoller(1)

\* the store as the ingestor finds it at start
InitBase ==
  /\ InitIngestor /\ InitWs
  /\ dbAnchors = {"A1", "A2"} /\ dbWearables = {"W1"}
  /\ anchor_rows = <<"A1", "A2">> /\ wearable_rows = <<"W1">>

\* the locator right after fetch_anchors, before its first tick; its monotonic
\* clock (time.monotonic(), origin unspecified) reads LocStart
LocStart == WRITE_THROTTLE_S
LocMaxTime == LocStart + LocHorizon

InitLocAt(rows) ==
  /\ positions = rows
  /\ loc_pc = "fetch" /\ loc_mono = LocStart /\ loc_wake = LocStart
  /\ loc_records = <<>> /\ loc_todo = <<>>
  /\ last_written_ts_monotonic = <<>>
  /\ loc_skips = {}

InitLocRun == InitLocAt(<<>>)

\* anchors A1 and A2 were registered when the locator started; TOP_K at its default
InitLoc == InitLocRun /\ loc_anchors = {"A1", "A2"} /\ top_k = TOP_K

\* ALLOW_FALLBACK_NOW_TS at its default
Init == InitBase /\ InitLoc /\ allow_fallback = TRUE

\* ALLOW_FALLBACK_NOW_TS set either way
InitTs == InitBase /\ InitLoc /\ allow_fallback \in BOOLEAN

\* the main coroutine is suspended in an await (wait_for, pool.acquire, a store
\* call): only then can callbacks, signals and other actors be observed to run
Suspended == pc \in {"wait", "fresh", "insert", "retry", "load_a", "load_w", "filter"}

\* a flusher is suspended in a store call: the only moments at which the
\* ingestor observes what other actors did to the anchors and wearables tables
InStoreCall == pc \in {"fresh", "insert", "retry", "load_a", "load_w"}

\* --------------------------------------------------- other actors on the store
\* POST /anchors (api/main.py create_anchor)
RegisterAnchor(a) ==
  /\ InStoreCall /\ storeOps < MaxStoreOps /\ a \notin dbAnchors
  /\ dbAnchors' = dbAnchors \cup {a} /\ storeOps' = storeOps + 1
  /\ anchor_rows' = Append(anchor_rows, a)
  /\ UNCHANGED <<locVars, wsVars, wearable_rows, dbWearables, scans, anchor_status, events,
                 ingVars>>

\* POST /wearables (api/main.py create_wearable)
RegisterWearable(w) ==
  /\ InStoreCall /\ storeOps < MaxStoreOps /\ w \notin dbWearables
  /\ dbWearables' = dbWearables \cup {w} /\ storeOps' = storeOps + 1
  /\ wearable_rows' = Append(wearable_rows, w)
  /\ UNCHANGED <<locVars, wsVars, anchor_rows, dbAnchors, scans, anchor_status, events,
                 ingVars>>

\* an anchor row removed in the store by an administrator: the only way a row
\* that passed the known-ID filter can still violate its foreign key
RemoveAnchor(a) ==
  /\ InStoreCall /\ storeOps < MaxStoreOps /\ a \in dbAnchors
  /\ dbAnchors' = dbAnchors \ {a} /\ storeOps' = storeOps + 1
  /\ anchor_rows' = SelectSeq(anchor_rows, LAMBDA x : x # a)
  /\ UNCHANGED <<locVars, wsVars, wearable_rows, dbWearables, scans, anchor_status, events,
                 ingVars>>

RemoveWearable(w) ==
  /\ InStoreCall /\ storeOps < MaxStoreOps /\ w \in dbWearables
  /\ dbWearables' = dbWearables \ {w} /\ storeOps' = storeOps + 1
  /\ wearable_rows' = SelectSeq(wearable_rows, LAMBDA x : x # w)
  /\ UNCHANGED <<locVars, wsVars, anchor_rows, dbAnchors, scans, anchor_status, events,
                 ingVars>>

\* ------------------------------------------------------------- the clock
\* time passes while the main coroutine is suspended; a wait_for in progress
\* ends at its timeout at the latest
Tick ==
  /\ Suspended /\ mono < MaxTime
  /\ pc = "wait" => mono < timeout_at
  /\ mono' = mono + 1
  /\ UNCHANGED <<locVars, tblVars, wsVars, storeVars, allow_fallback, known, queueVars, bufVars, last_flush,
                 timeout_at, stop, pc, phase, flushVars, exc, connVars, loadVars,
                 delivered, received, dropped, handed, rejected>>

\* ------------------------------------------------------------ on_message
\* the decoded messages the bus can deliver (ScanMessage, AnchorStatus, RtlsEvent)
TsInputs == {NoTs}

\* the timestamps of the normalization cases: missing, just below and at
\* TS_MIN_EPOCH_MS, at and just above (start of run + 1 year), far future
TsCases ==
  {NoTs, <<TS_MIN_EPOCH_MS - 1>>, <<TS_MIN_EPOCH_MS>>, <<WallEpoch + YEAR_MS>>,
   <<WallEpoch + YEAR_MS + 1>>, <<WallEpoch + YEAR_MS + MaxTime + 1>>}
TsMsgInputs == [kind : Kinds, anchor_id : {"A1"}, uid : {"W1"}, ts : TsCases, rssi : {NoRssi}]

ScanInputs ==
  {in \in [kind : {"scans"}, anchor_id : AnchorIds, uid : WearableIds, ts : TsInputs,
            rssi : {TX_POWER_DBM_AT_1M}] :
      in.anchor_id = "A1" \/ in.uid = "W1"}
StatusInputs == [kind : {"status"}, anchor_id : {"A1", "Z"}, uid : {NoId}, ts : TsInputs,
                 rssi : {NoRssi}]
EventInputs == [kind : {"events"}, anchor_id : {NoId}, uid : WearableIds, ts : TsInputs,
                rssi : {NoRssi}]

put_nowait_evict(queue, cap, msg) ==
  IF Len(queue) >= cap THEN Append(Tail(queue), msg) ELSE Append(queue, msg)

\* asyncio.Queue.put_nowait run by call_soon_threadsafe: QueueFull is raised in
\* the loop callback, so the message is lost and the queue is left as it was
put_nowait(queue, cap, msg) ==
  IF Len(queue) >= cap THEN queue ELSE Append(queue, msg)

\* the callback on a payload that validates: the model object is handed to
\* the loop thread, which runs put_nowait
deliver_bounded(in, max, cap) ==
  /\ Suspended /\ mqtt_connected /\ delivered < max
  /\ LET msg == [n |-> delivered + 1, anchor_id |-> in.anchor_id,
                 uid |-> in.uid, ts |-> in.ts, rssi |-> in.rssi]
         k == in.kind
         newq == put_nowait(QueueOf(k), cap, msg)
     IN /\ scan_q' = IF k = "scans" THEN newq ELSE scan_q
        /\ status_q' = IF k = "status" THEN newq ELSE status_q
        /\ event_q' = IF k = "events" THEN newq ELSE event_q
        /\ dropped' = IF msg \in Range(newq) THEN dropped
                      ELSE dropped \cup {[n |-> msg.n, kind |-> k, qlen |-> Len(QueueOf(k))]}
  /\ delivered' = delivered + 1
  /\ UNCHANGED <<locVars, tblVars, wsVars, storeVars, allow_fallback, known, bufVars, last_flush, timeout_at,
                 stop, pc, phase, flushVars, exc, connVars, loadVars, mono, handed, rejected>>

deliver(in) == deliver_bounded(in, MaxMsgs, CapOf(in.kind))

\* on_message on a payload that validates
on_message(in) == deliver(in) /\ UNCHANGED received

\* ---- on_message from the raw bus message ----
\* a topic is the sequence of its levels; a payload is what json.loads makes
\* of it: nothing ("invalid"), a value that is no object ("other"), or an
\* object, of which the fields the three models read are kept (NoId, NoRssi,
\* NoType: the key is absent)
NoType == "-"
Topics ==
  {<<"rtls", "anchor", "A1", "scan">>, <<"rtls", "anchor", "A1", "status">>,
   <<"rtls", "events">>, <<"rtls", "anchor", "A1", "config">>, <<"rtls", "events", "scan">>}

\* topic.startswith("rtls/anchor/")
starts_with_anchor(t) == Len(t) >= 3 /\ t[1] = "rtls" /\ t[2] = "anchor"
\* topic.endswith("/scan"), "/status"
ends_with(t, last) == Len(t) >= 2 /\ t[Len(t)] = last

\* the branch of the if / elif chain a topic takes
topic_kind(t) ==
  IF starts_with_anchor(t) /\ ends_with(t, "scan") THEN "scans"
  ELSE IF starts_with_anchor(t) /\ ends_with(t, "status") THEN "status"
  ELSE IF t = <<"rtls", "events">> THEN "events"
  ELSE "ignored"

\* a validation that does not ask for the rssi of a scan
validates_without_rssi(k, p) ==
  CASE k = "scans" -> p.anchor_id # NoId /\ p.uid # NoId
    [] k = "status" -> p.anchor_id # NoId
    [] k = "events" -> p.uid # NoId /\ p.type # NoType

\* ScanMessage(**payload), AnchorStatus(**payload), RtlsEvent(**payload): the
\* fields without a default must be there
validates(k, p) ==
  CASE k = "scans" -> p.anchor_id # NoId /\ p.uid # NoId /\ p.rssi # NoRssi
    [] k = "status" -> p.anchor_id # NoId
    [] k = "events" -> p.uid # NoId /\ p.type # NoType

\* the callback gets as far as call_soon_threadsafe
decodes(raw) ==
  /\ raw.json = "object"
  /\ topic_kind(raw.topic) # "ignored"
  /\ validates(topic_kind(raw.topic), raw)

\* the model object: each model keeps the fields it declares
decoded(raw) ==
  LET k == topic_kind(raw.topic)
  IN [kind |-> k,
      anchor_id |-> IF k = "events" THEN NoId ELSE raw.anchor_id,
      uid |-> IF k = "status" THEN NoId ELSE raw.uid,
      ts |-> NoTs,
      rssi |-> IF k = "scans" THEN raw.rssi ELSE NoRssi]

\* the payloads of the decoder cases: every field there, one required field
\* absent, no object, no JSON
RawPayloads ==
  {p \in [json : {"object", "other", "invalid"}, anchor_id : {"A1", NoId}, uid : {"W1", NoId},
          rssi : {TX_POWER_DBM_AT_1M, NoRssi}, type : {"emergency", NoType}] :
     /\ p.json # "object" =>
          p.anchor_id = NoId /\ p.uid = NoId /\ p.rssi = NoRssi /\ p.type = NoType
     /\ p.json = "object" =>
          (IF p.anchor_id = NoId THEN 1 ELSE 0) + (IF p.uid = NoId THEN 1 ELSE 0)
            + (IF p.rssi = NoRssi THEN 1 ELSE 0) + (IF p.type = NoType THEN 1 ELSE 0) <= 1}

\* the cases that matter on a topic: on a scan topic every payload in which
\* the type is there, on a status topic a missing anchor_id, on the event
\* topic a missing anchor_id, uid or type, on any other topic a full payload
RawCase(t, p) ==
  CASE topic_kind(t) = "scans" -> p.json # "object" \/ p.type # NoType
    [] topic_kind(t) = "status" ->
         p.json = "invalid" \/ (p.json = "object" /\ p.uid # NoId /\ p.rssi # NoRssi /\ p.type # NoType)
    [] topic_kind(t) = "events" -> p.json = "invalid" \/ (p.json = "object" /\ p.rssi # NoRssi)
    [] OTHER -> p.json = "object" /\ p.anchor_id # NoId /\ p.uid # NoId /\ p.rssi # NoRssi
                /\ p.type # NoType

RawInputs ==
  {[topic |-> x[1], json |-> x[2].json, anchor_id |-> x[2].anchor_id, uid |-> x[2].uid,
    rssi |-> x[2].rssi, type |-> x[2].type] :
     x \in {y \in Topics \X RawPayloads : RawCase(y[1], y[2])}}

\* on_message: json.loads, the topic branches, the model constructors; every
\* exception is caught and logged inside the callback
on_raw_message(raw) ==
  /\ received' = Append(received, raw)
  /\ IF decodes(raw)
       THEN deliver(decoded(raw))
       ELSE /\ Suspended /\ mqtt_connected /\ delivered < MaxMsgs
            /\ delivered' = delivered + 1
            /\ UNCHANGED <<locVars, tblVars, wsVars, storeVars, allow_fallback, known,
                           queueVars, bufVars, last_flush, timeout_at, stop, pc, phase,
                           flushVars, exc, connVars, loadVars, mono, dropped, handed, rejected>>

\* _handle_signal: SIGINT / SIGTERM. stop is read only by `while not
\* stop.is_set()`, so a signal that arrives during a flush is observed exactly
\* like one that arrived during the wait before that flush
HandleSignal ==
  /\ pc = "wait" /\ ~stop
  /\ stop' = TRUE
  /\ UNCHANGED <<locVars, tblVars, wsVars, storeVars, allow_fallback, known, queueVars, bufVars, last_flush,
                 timeout_at, pc, phase, flushVars, exc, connVars, loadVars, mono,
                 delivered, received, dropped, handed, rejected>>

\* ------------------------------------------------------------- run(): main loop
Take(q, k) == SubSeq(q, 1, k)
Drop(q, k) == SubSeq(q, k + 1, Len(q))

DrainedInFront(buf, q, k) == Take(q, k) \o buf

\* `for _ in range(k): buf.append(q.get_nowait())`: the buffer afterwards
Drained(buf, q, k) == buf \o Take(q, k)

\* the next `if <buf>: await flush_<kind>(...)` of run() whose buffer is non-empty
NextKind(after, sb, stb, eb) ==
  IF after = "none" /\ sb # <<>> THEN "scans"
  ELSE IF after \in {"none", "scans"} /\ stb # <<>> THEN "status"
  ELSE IF after \in {"none", "scans", "status"} /\ eb # <<>> THEN "events"
  ELSE "none"

BatchOf(k, sb, stb, eb) ==
  CASE k = "scans" -> sb [] k = "status" -> stb [] k = "events" -> eb [] OTHER -> <<>>

\* a size trigger that fires only above the limit
do_flush_over(sb, stb, eb) ==
  \/ mono - last_flush >= BATCH_MAX_AGE_S
  \/ Len(sb) > BATCH_MAX_SIZE
  \/ Len(stb) > BATCH_MAX_SIZE \div 2
  \/ Len(eb) > BATCH_MAX_SIZE \div 2

\* the flush trigger of run()
do_flush(sb, stb, eb) ==
  \/ mono - last_flush >= BATCH_MAX_AGE_S
  \/ Len(sb) >= BATCH_MAX_SIZE
  \/ Len(stb) >= BATCH_MAX_SIZE \div 2
  \/ Len(eb) >= BATCH_MAX_SIZE \div 2

\* `while not stop.is_set()`: either leave the loop for the final flush, or
\* start wait_for(scan_q.get(), timeout)
LoopTop ==
  /\ pc = "top"
  /\ IF stop
     THEN LET k == NextKind("none", scans_buf, status_buf, events_buf)
          IN /\ phase' = "final"
             /\ pc' = IF k = "none" THEN "finally" ELSE "fresh"
             /\ fkind' = IF k = "none" THEN fkind ELSE k
             /\ handed' = handed \cup Ns(BatchOf(k, scans_buf, status_buf, events_buf))
             /\ UNCHANGED timeout_at
     ELSE /\ timeout_at' = mono + Max(0, BATCH_MAX_AGE_S - (mono - last_flush))
          /\ pc' = "wait"
          /\ UNCHANGED <<phase, fkind, handed>>
  /\ UNCHANGED <<locVars, tblVars, wsVars, storeVars, allow_fallback, known, queueVars, bufVars, last_flush,
                 stop, valid, skipped, mode, exc, connVars, loadVars, mono, delivered, received, dropped, rejected>>

\* the rest of one loop iteration after wait_for returned (did_any) or timed
\* out: the three bounded drains, the flush decision, and the call of the
\* first flusher up to its first suspension
Iterate(got) ==
  LET q0 == IF got THEN Tail(scan_q) ELSE scan_q
      sb0 == IF got THEN Append(scans_buf, Head(scan_q)) ELSE scans_buf
      ns == Min(DRAIN_SCANS, Len(q0))
      nst == Min(DRAIN_STATUS, Len(status_q))
      ne == Min(DRAIN_EVENTS, Len(event_q))
      sb == Drained(sb0, q0, ns)
      stb == Drained(status_buf, status_q, nst)
      eb == Drained(events_buf, event_q, ne)
      k == NextKind("none", sb, stb, eb)
  IN /\ scan_q' = Drop(q0, ns) /\ status_q' = Drop(status_q, nst)
     /\ event_q' = Drop(event_q, ne)
     /\ scans_buf' = sb /\ status_buf' = stb /\ events_buf' = eb
     /\ IF do_flush(sb, stb, eb) /\ k # "none"
        THEN /\ pc' = "fresh" /\ fkind' = k
             /\ handed' = handed \cup Ns(BatchOf(k, sb, stb, eb))
             /\ UNCHANGED last_flush
        ELSE /\ pc' = "top"
             /\ last_flush' = IF ~got /\ mono - last_flush >= BATCH_MAX_AGE_S
                              THEN mono ELSE last_flush
             /\ UNCHANGED <<fkind, handed>>
     /\ UNCHANGED <<locVars, tblVars, wsVars, storeVars, allow_fallback, known, timeout_at, stop, phase,
                    valid, skipped, mode, exc, connVars, loadVars, mono, delivered, received, dropped, rejected>>

\* wait_for(scan_q.get(), timeout) returned a message
WaitGot == pc = "wait" /\ scan_q # <<>> /\ Iterate(TRUE)

\* a wait that ends only when a scan is there: `await scan_q.get()`
WaitForScanOnly == pc = "wait" /\ scan_q # <<>> /\ mono >= timeout_at /\ Iterate(FALSE)

\* wait_for raised asyncio.TimeoutError
WaitTimeout == pc = "wait" /\ mono >= timeout_at /\ Iterate(FALSE)

\* an exception leaves the flusher and run()'s while loop (nothing catches it):
\* the finally block closes the bus client and the pool, and the process ends
Raise(e) ==
  /\ pc' = "crashed" /\ exc' = e
  /\ mqtt_connected' = FALSE /\ pool_open' = FALSE
  /\ mqtt_subs' = {} /\ UNCHANGED <<mqtt_status, mqtt_connects, mqtt_faults, loadVars>>
  /\ UNCHANGED <<locVars, tblVars, wsVars, storeVars, allow_fallback, known, queueVars, bufVars, last_flush,
                 timeout_at, stop, phase, flushVars, mono, delivered, received, dropped, handed, rejected>>

\* flush_*: pool.acquire + kid.ensure_fresh, then the filter loop
FlushFresh ==
  /\ pc = "fresh"
  /\ LET kid == ensure_fresh(known)
         v == FilterBatch(fkind, BufOf(fkind), kid, Wall)
     IN /\ known' = kid
        /\ loads' = IF kid = known THEN loads ELSE loads + 1
        /\ known_gen' = IF kid = known THEN known_gen
                        ELSE [anchors |-> loads + 1, wearables |-> loads + 1]
        /\ valid' = v
        /\ skipped' = CountSkipped(fkind, BufOf(fkind), kid)
        /\ mode' = IF v = <<>> THEN "empty" ELSE "none"
        /\ pc' = IF v = <<>> THEN "returned" ELSE "insert"
  /\ UNCHANGED <<locVars, tblVars, wsVars, storeVars, allow_fallback, queueVars, bufVars, last_flush, timeout_at,
                 stop, phase, fkind, exc, connVars, refreshed, mono, delivered, received, dropped, handed, rejected>>

\* flush_*: conn.executemany succeeded
FlushInsert ==
  /\ pc = "insert" /\ BulkAccepted(fkind, valid)
  /\ InsertInto(fkind, StoredAll(fkind, valid))
  /\ mode' = "bulk" /\ pc' = "returned"
  /\ UNCHANGED <<locVars, tblVars, wsVars, dbAnchors, dbWearables, storeOps, allow_fallback, known, queueVars,
                 bufVars, last_flush, timeout_at, stop, phase, fkind, valid, skipped,
                 exc, connVars, loadVars, mono, delivered, received, dropped, handed, rejected>>

\* flush_scans: executemany raised ForeignKeyViolationError, row-by-row retry starts
ScanBulkFkViolation ==
  /\ pc = "insert" /\ fkind = "scans" /\ ~BulkAccepted(fkind, valid)
  /\ mode' = "retry" /\ pc' = "retry"
  /\ UNCHANGED <<locVars, tblVars, wsVars, storeVars, allow_fallback, known, queueVars, bufVars, last_flush,
                 timeout_at, stop, phase, fkind, valid, skipped, exc, connVars, loadVars, mono,
                 delivered, received, dropped, handed, rejected>>

\* flush_scans: one conn.execute of the retry loop (a violating row is passed over)
ScanRetryRow ==
  /\ pc = "retry" /\ valid # <<>>
  /\ LET row == Head(valid)
     IN InsertInto("scans", IF RowAccepted(row) THEN <<Stored("scans", row)>> ELSE <<>>)
  /\ rejected' = IF RowAccepted(Head(valid)) THEN rejected ELSE rejected \cup {Head(valid).n}
  /\ valid' = Tail(valid)
  /\ pc' = IF Tail(valid) = <<>> THEN "returned" ELSE "retry"
  /\ UNCHANGED <<locVars, tblVars, wsVars, dbAnchors, dbWearables, storeOps, allow_fallback, known, queueVars,
                 bufVars, last_flush, timeout_at, stop, phase, fkind, skipped, mode,
                 exc, connVars, loadVars, mono, delivered, received, dropped, handed>>

\* flush_status / flush_events: executemany raised ForeignKeyViolationError, which
\* neither the flusher nor run() catches
BulkFkViolationRaised ==
  /\ pc = "insert" /\ fkind # "scans" /\ ~BulkAccepted(fkind, valid)
  /\ Raise("fk_violation")

\* pool.acquire, the known-ID reload or an insert failed (store unreachable,
\* connection reset): nothing in the flusher or in run() catches it
StoreError ==
  /\ pc \in {"fresh", "insert", "retry"}
  /\ Raise(IF pc = "fresh" /\ mono - known.last_loaded_s >= IDS_REFRESH_S
           THEN "reload_failed" ELSE "store_error")

\* run() after a flusher returned: buf.clear() in the loop (not in the final
\* flush), then the next non-empty buffer, then last_flush = monotonic()
AfterFlush ==
  /\ pc = "returned"
  /\ LET inloop == phase = "loop"
         sb == IF inloop /\ fkind = "scans" THEN <<>> ELSE scans_buf
         stb == IF inloop /\ fkind = "status" THEN <<>> ELSE status_buf
         eb == IF inloop /\ fkind = "events" THEN <<>> ELSE events_buf
         k == NextKind(fkind, sb, stb, eb)
     IN /\ scans_buf' = sb /\ status_buf' = stb /\ events_buf' = eb
        /\ fkind' = IF k = "none" THEN "scans" ELSE k
        /\ handed' = handed \cup Ns(BatchOf(k, sb, stb, eb))
        /\ pc' = IF k # "none" THEN "fresh" ELSE IF inloop THEN "top" ELSE "finally"
        /\ last_flush' = IF k = "none" /\ inloop THEN mono ELSE last_flush
  \* the flusher's locals are gone once it has returned
  /\ valid' = <<>> /\ skipped' = 0 /\ mode' = "none"
  /\ UNCHANGED <<locVars, tblVars, wsVars, storeVars, allow_fallback, known, queueVars, timeout_at, stop, phase,
                 exc, connVars, loadVars, mono, delivered, received, dropped, rejected>>

\* run(): the finally block after the final flush: mqtt loop_stop + disconnect,
\* pool.close()
Finally ==
  /\ pc = "finally"
  /\ mqtt_connected' = FALSE /\ pool_open' = FALSE
  /\ mqtt_subs' = {} /\ UNCHANGED <<mqtt_status, mqtt_connects, mqtt_faults, loadVars>>
  /\ pc' = "done"
  /\ UNCHANGED <<locVars, tblVars, wsVars, storeVars, allow_fallback, known, queueVars, bufVars, last_flush,
                 timeout_at, stop, phase, flushVars, exc, mono, delivered, received, dropped,
                 handed, rejected>>

Next ==
  \/ \E a \in AnchorIds : RegisterAnchor(a)
  \/ \E w \in WearableIds : RegisterWearable(w)
  \/ \E a \in AnchorIds : RemoveAnchor(a)
  \/ \E w \in WearableIds : RemoveWearable(w)
  \/ Tick
  \/ \E in \in ScanInputs \cup StatusInputs \cup EventInputs : on_message(in)
  \/ HandleSignal
  \/ LoopTop
  \/ WaitGot
  \/ WaitTimeout
  \/ FlushFresh
  \/ FlushInsert
  \/ ScanBulkFkViolation
  \/ ScanRetryRow
  \/ BulkFkViolationRaised
  \/ StoreError
  \/ AfterFlush
  \/ Finally

Spec == Init /\ [][Next]_vars

\* the ingestor fed with every timestamp case, the store left alone
NextTs ==
  \/ Tick
  \/ \E in \in TsMsgInputs : on_message(in)
  \/ LoopTop
  \/ WaitGot
  \/ WaitTimeout
  \/ FlushFresh
  \/ FlushInsert
  \/ AfterFlush

SpecTs == InitTs /\ [][NextTs]_vars

\* the ingestor fed with raw bus messages, the store left alone
NextMsg ==
  \/ Tick
  \/ \E raw \in RawInputs : on_raw_message(raw)
  \/ LoopTop
  \/ WaitGot
  \/ WaitTimeout
  \/ FlushFresh
  \/ FlushInsert
  \/ AfterFlush

SpecMsg == Init /\ [][NextMsg]_vars

\* the ingestor while anchors and wearables are registered through the api; no
\* store failure, no signal
NextIds ==
  \/ \E a \in AnchorIds : RegisterAnchor(a)
  \/ \E w \in WearableIds : RegisterWearable(w)
  \/ Tick
  \/ \E in \in ScanInputs \cup StatusInputs \cup EventInputs : on_message(in)
  \/ LoopTop
  \/ WaitGot
  \/ WaitTimeout
  \/ FlushFresh
  \/ FlushInsert
  \/ AfterFlush

SpecIds == Init /\ [][NextIds]_vars

\* ------------------------------------------------------- the bus client
\* a topic filter of the subscription against a topic, level by level
topic_matches(pat, topic) ==
  /\ Len(pat) = Len(topic)
  /\ \A i \in 1..Len(pat) : pat[i] = "+" \/ pat[i] = topic[i]

subscribed_on_first_connect(rc, n) == IF rc = 0 /\ n = 0 THEN SubPatterns ELSE {}

\* on_connect: the filters of its c.subscribe call; n connects succeeded before
subscribed_on_connect(rc, n) == IF rc = 0 THEN SubPatterns ELSE {}

\* the network thread handles a CONNACK (of connect_async or of an automatic
\* reconnect) and calls on_connect(rc); a refused connect leaves the client
\* disconnected
BusConnack(rc) ==
  /\ ~mqtt_connected /\ pc \notin {"crashed", "done"}
  /\ rc # 0 => mqtt_faults < MaxBusFaults
  /\ mqtt_connected' = (rc = 0)
  /\ mqtt_status' = IF rc = 0 THEN "online" ELSE mqtt_status
  /\ mqtt_subs' = subscribed_on_connect(rc, mqtt_connects)
  /\ mqtt_connects' = IF rc = 0 THEN mqtt_connects + 1 ELSE mqtt_connects
  /\ mqtt_faults' = IF rc = 0 THEN mqtt_faults ELSE mqtt_faults + 1
  /\ UNCHANGED <<locVars, tblVars, wsVars, storeVars, allow_fallback, known, queueVars, bufVars,
                 last_flush, timeout_at, stop, pc, phase, flushVars, exc, pool_open, loadVars, mono,
                 delivered, received, dropped, handed, rejected>>

\* the connection is lost (on_disconnect with rc != 0): the session was clean,
\* so the broker forgets its subscriptions, and it publishes the will
BusDisconnect ==
  /\ mqtt_connected /\ mqtt_faults < MaxBusFaults
  /\ mqtt_connected' = FALSE
  /\ mqtt_subs' = {}
  /\ mqtt_status' = "offline"
  /\ mqtt_faults' = mqtt_faults + 1
  /\ UNCHANGED <<locVars, tblVars, wsVars, storeVars, allow_fallback, known, queueVars, bufVars,
                 last_flush, timeout_at, stop, pc, phase, flushVars, exc, pool_open, loadVars, mono,
                 mqtt_connects, delivered, received, dropped, handed, rejected>>

\* the broker forwards a message to the client: its topic matches a filter
\* of the session
BusDeliver(raw) ==
  /\ \E pat \in mqtt_subs : topic_matches(pat, raw.topic)
  /\ on_raw_message(raw)

NextBus ==
  \/ \E rc \in {0, 5} : BusConnack(rc)
  \/ BusDisconnect
  \/ \E raw \in {r \in RawInputs : r.json = "object"} : BusDeliver(raw)
  \/ Tick
  \/ LoopTop
  \/ WaitGot
  \/ WaitTimeout
  \/ FlushFresh
  \/ FlushInsert
  \/ AfterFlush

\* the ingestor right after build_mqtt_client: connect_async is under way
InitBus ==
  /\ InitRun(FALSE) /\ InitWs /\ InitLoc /\ allow_fallback = TRUE
  /\ dbAnchors = {"A1", "A2"} /\ dbWearables = {"W1"}
  /\ anchor_rows = <<"A1", "A2">> /\ wearable_rows = <<"W1">>

SpecBus == InitBus /\ [][NextBus]_vars

\* ------------------------------------ the flusher's reload, await by await
\* what every step of the reload leaves alone
snapRest == <<locVars, tblVars, wsVars, storeVars, allow_fallback, queueVars, bufVars, last_flush,
              timeout_at, stop, phase, fkind, exc, connVars, mono, delivered, received,
              dropped, handed, rejected>>

\* flush_*: pool.acquire returned; ensure_fresh reads the clock and compares
FlushAcquire ==
  /\ pc = "fresh"
  /\ pc' = IF mono - known.last_loaded_s >= IDS_REFRESH_S THEN "load_a" ELSE "filter"
  /\ UNCHANGED <<snapRest, known, loadVars, valid, skipped, mode>>

\* a load that assigns the anchor set as soon as it is fetched
LoadAnchorsAssigns ==
  /\ pc = "load_a"
  /\ refreshed' = [anchors |-> dbAnchors, wearables |-> {}]
  /\ known' = [known EXCEPT !.anchors = dbAnchors]
  /\ known_gen' = [known_gen EXCEPT !.anchors = loads + 1]
  /\ pc' = "load_w"
  /\ UNCHANGED <<snapRest, loads, valid, skipped, mode>>

\* KnownIds.load: `SELECT id FROM anchors` returned
LoadAnchors ==
  /\ pc = "load_a"
  /\ refreshed' = [anchors |-> dbAnchors, wearables |-> {}]
  /\ pc' = "load_w"
  /\ UNCHANGED <<snapRest, known, known_gen, loads, valid, skipped, mode>>

\* KnownIds.load: `SELECT uid FROM wearables` returned; load returns the new
\* object and ensure_fresh assigns its three fields, with no await in between
LoadWearables ==
  /\ pc = "load_w"
  /\ known' = [anchors |-> refreshed.anchors, wearables |-> dbWearables, last_loaded_s |-> mono]
  /\ known_gen' = [anchors |-> loads + 1, wearables |-> loads + 1]
  /\ loads' = loads + 1
  /\ refreshed' = NoLoad
  /\ pc' = "filter"
  /\ UNCHANGED <<snapRest, valid, skipped, mode>>

\* flush_*: the connection is released, then the for-loop over the batch
FlushFilter ==
  /\ pc = "filter"
  /\ LET v == FilterBatch(fkind, BufOf(fkind), known, Wall)
     IN /\ valid' = v
        /\ skipped' = CountSkipped(fkind, BufOf(fkind), known)
        /\ mode' = IF v = <<>> THEN "empty" ELSE "none"
        /\ pc' = IF v = <<>> THEN "returned" ELSE "insert"
  /\ UNCHANGED <<snapRest, known, loadVars>>

NextSnap ==
  \/ \E a \in AnchorIds : RegisterAnchor(a)
  \/ \E w \in WearableIds : RegisterWearable(w)
  \/ Tick
  \/ \E in \in ScanInputs \cup StatusInputs \cup EventInputs : on_message(in)
  \/ LoopTop
  \/ WaitGot
  \/ WaitTimeout
  \/ FlushAcquire
  \/ LoadAnchors
  \/ LoadWearables
  \/ FlushFilter
  \/ FlushInsert
  \/ AfterFlush

SpecSnap == Init /\ [][NextSnap]_vars

\* ================================================================ locator
\* now() of the store as the locator's statements see it
LocNow == WallEpoch + (loc_mono - LocStart)

\* query_seconds = max(WINDOW_SECONDS, int(WINDOW_SECONDS * QUERY_WINDOW_FACTOR))
query_seconds == Max(WINDOW_SECONDS, WINDOW_SECONDS * QUERY_WINDOW_FACTOR)

Reverse(s) == [i \in 1..Len(s) |-> s[Len(s) + 1 - i]]

Perms(S) == {f \in [1..Cardinality(S) -> S] : \A i, j \in 1..Cardinality(S) : i # j => f[i] # f[j]}

MaxOf(S) == CHOOSE x \in S : \A y \in S : y <= x
MinOf(S) == CHOOSE x \in S : \A y \in S : x <= y

\* a fetch without the WHERE clause
fetch_all_scans(seconds) == Reverse(scans)

\* fetch_recent_scans: the rows younger than `seconds`, newest first
fetch_recent_scans(seconds) ==
  Reverse(SelectSeq(scans, LAMBDA r : r.ts > LocNow - seconds))

\* records of one uid, as by_uid groups them
RecordsOf(records, uid) == SelectSeq(records, LAMBDA r : r.uid = uid)

uid_latest_ts(records, uid) == MaxOf({r.ts : r \in Range(RecordsOf(records, uid))})

\* the orders in which by_uid can list the uids of a newest-first result
\* (rows of equal ts come in either order)
ByUidOrders(records) ==
  LET uids == {r.uid : r \in Range(records)}
  IN {p \in Perms(uids) :
        \A i, j \in 1..Len(p) :
          i < j => uid_latest_ts(records, p[i]) >= uid_latest_ts(records, p[j])}

\* the anchors of per_anchor: heard inside the uid's window and known to the
\* anchors mapping fetched at start
per_anchor(records, uid) ==
  LET recs == RecordsOf(records, uid)
      uid_window_start == uid_latest_ts(records, uid) - WINDOW_SECONDS
  IN {r.anchor_id : r \in {x \in Range(recs) : x.ts >= uid_window_start /\ x.anchor_id \in loc_anchors}}

\* ---- the estimator of the tick (exact arithmetic) ----
\* Lengths are kept exactly: a distance d is held as its square in dm^2
\* (1 m -> 100), which is an integer for every rssi of the 10 dB grid when
\* PATH_LOSS_EXPONENT is 2; coordinates and scores are fractions num/den.

\* anchors.get(aid): the coordinates stored with each anchor (metres)
AnchorXY(aid) ==
  CASE aid = "A1" -> [x |-> 0, y |-> 0]
    [] aid = "A2" -> [x |-> 10, y |-> 0]
    [] aid = "A3" -> [x |-> 0, y |-> 10]
    [] OTHER -> [x |-> 10, y |-> 10]

RECURSIVE Pow10(_)
Pow10(e) == IF e = 0 THEN 1 ELSE 10 * Pow10(e - 1)

Abs(n) == IF n < 0 THEN -n ELSE n

Frac(n, d) == [num |-> n, den |-> d]
FracEq(a, b) == a.num * b.den = b.num * a.den
FracLe(a, b) == a.num * b.den <= b.num * a.den
FracLt(a, b) == a.num * b.den < b.num * a.den

\* rssi_to_distance: 10 ** ((tx_power - rssi) / (10 * n)), squared, in dm^2
rssi_to_distance(rssi) ==
  Pow10(((TX_POWER_DBM_AT_1M - rssi) \div (5 * PATH_LOSS_EXPONENT)) + 2)

\* a fold over all fetched records of the uid, whatever their age
RECURSIVE per_anchor_fold_all(_, _, _)
per_anchor_fold_all(recs, uid_window_start, acc) ==
  IF recs = <<>> THEN acc
  ELSE LET r == Head(recs)
           at == {i \in 1..Len(acc) : acc[i].aid = r.anchor_id}
       IN IF r.anchor_id \notin loc_anchors
            THEN per_anchor_fold_all(Tail(recs), uid_window_start, acc)
          ELSE IF at = {}
            THEN per_anchor_fold_all(Tail(recs), uid_window_start,
                   Append(acc, [aid |-> r.anchor_id, best_rssi |-> r.rssi, latest_ts |-> r.ts]))
          ELSE per_anchor_fold_all(Tail(recs), uid_window_start,
                 [i \in 1..Len(acc) |->
                    IF i \in at
                      THEN [aid |-> acc[i].aid,
                            best_rssi |-> Max(acc[i].best_rssi, r.rssi),
                            latest_ts |-> Max(acc[i].latest_ts, r.ts)]
                      ELSE acc[i]])

\* the per_anchor dict after the fold over the uid's records: one item per
\* known anchor heard inside the window, in order of first appearance
RECURSIVE per_anchor_fold(_, _, _)
per_anchor_fold(recs, uid_window_start, acc) ==
  IF recs = <<>> THEN acc
  ELSE LET r == Head(recs)
           at == {i \in 1..Len(acc) : acc[i].aid = r.anchor_id}
       IN IF r.ts < uid_window_start \/ r.anchor_id \notin loc_anchors
            THEN per_anchor_fold(Tail(recs), uid_window_start, acc)
          ELSE IF at = {}
            THEN per_anchor_fold(Tail(recs), uid_window_start,
                   Append(acc, [aid |-> r.anchor_id, best_rssi |-> r.rssi, latest_ts |-> r.ts]))
          ELSE per_anchor_fold(Tail(recs), uid_window_start,
                 [i \in 1..Len(acc) |->
                    IF i \in at
                      THEN [aid |-> acc[i].aid,
                            best_rssi |-> Max(acc[i].best_rssi, r.rssi),
                            latest_ts |-> Max(acc[i].latest_ts, r.ts)]
                      ELSE acc[i]])

per_anchor_items(records, uid) ==
  per_anchor_fold(RecordsOf(records, uid),
                  uid_latest_ts(records, uid) - WINDOW_SECONDS, <<>>)

ItemOf(items, aid) == items[CHOOSE i \in 1..Len(items) : items[i].aid = aid]

\* dists = {aid: rssi_to_distance(v["best_rssi"]) for aid, v in per_anchor.items()}
dists_of(items) ==
  [a \in {items[i].aid : i \in 1..Len(items)} |-> rssi_to_distance(ItemOf(items, a).best_rssi)]

\* the anchor of the newest record instead of the strongest
nearest_newest(items) == items[1].aid

\* max(per_anchor.items(), key=best_rssi)[0]: the first item of the highest rssi
nearest_of(items) ==
  LET top == MaxOf({items[i].best_rssi : i \in 1..Len(items)})
      first == MinOf({i \in 1..Len(items) : items[i].best_rssi = top})
  IN items[first].aid

\* sorted(per_anchor.items(), key=best_rssi, reverse=True): stable, so items of
\* equal rssi keep their order
RECURSIVE sorted_desc(_, _)
sorted_desc(items, acc) ==
  IF items = <<>> THEN acc
  ELSE LET it == Head(items)
           k == Cardinality({i \in 1..Len(acc) : acc[i].best_rssi >= it.best_rssi})
       IN sorted_desc(Tail(items),
                      SubSeq(acc, 1, k) \o <<it>> \o SubSeq(acc, k + 1, Len(acc)))

top_anchors(items, k) == SubSeq(sorted_desc(items, <<>>), 1, Min(k, Len(items)))

\* a weight that grows with the distance
Weight_by_distance(d2) == Max(d2, WEIGHT_DIST_CLAMP_DM * WEIGHT_DIST_CLAMP_DM)

\* w = 1.0 / (d * d) with d = max(dists[aid], WEIGHT_DIST_CLAMP_M), in units
\* of 1 / WeightScale per dm^2
Weight(d2) == WeightScale \div Max(d2, WEIGHT_DIST_CLAMP_DM * WEIGHT_DIST_CLAMP_DM)

RECURSIVE SumSeq(_)
SumSeq(s) == IF s = <<>> THEN 0 ELSE Head(s) + SumSeq(Tail(s))

\* spread = rssi_sorted[-1] - rssi_sorted[0] if len(rssi_sorted) >= 2 else 0.0
spread_of(items) ==
  LET rs == {items[i].best_rssi : i \in 1..Len(items)}
  IN IF Len(items) >= 2 THEN MaxOf(rs) - MinOf(rs) ELSE 0

\* the weighted sum without any of its three clamps
q_score_unclamped(num_anchors, k, spread) ==
  LET m == Max(1, k - 1)
      af == IF num_anchors > 1 THEN num_anchors - 1 ELSE 0
      rf == 40 - Abs(spread)
  IN Frac(6 * af * 40 + 4 * rf * m, 10 * m * 40)

\* a score whose anchor factor counts the first anchor as well
q_score_count_all(num_anchors, k, spread) ==
  LET m == Max(1, k - 1)
      af == Min(m, num_anchors)
      rf == 40 - Min(40, Abs(spread))
      den == 10 * m * 40
      raw == 6 * af * 40 + 4 * rf * m
  IN Frac(Max(0, Min(den, raw)), den)

\* q_score = max(0, min(1, 0.6 * anchor_factor + 0.4 * rssi_factor)) with
\* anchor_factor = min(1, (num_anchors - 1) / max(1, TOP_K - 1)) above one
\* anchor, else 0, and rssi_factor = 1 - min(1, abs(spread) / 40)
q_score(num_anchors, k, spread) ==
  LET m == Max(1, k - 1)
      af == IF num_anchors > 1 THEN Min(m, num_anchors - 1) ELSE 0
      rf == 40 - Min(40, Abs(spread))
      den == 10 * m * 40
      raw == 6 * af * 40 + 4 * rf * m
  IN Frac(Max(0, Min(den, raw)), den)

\* the body of the tick for one uid, l.122-161: the columns of its row
estimate(items, k) ==
  LET dists == dists_of(items)
      num_anchors == Cardinality(DOMAIN dists)
      nearest_aid == nearest_of(items)
      top == top_anchors(items, k)
      w == [i \in 1..Len(top) |-> Weight(dists[top[i].aid])]
      wx == SumSeq([i \in 1..Len(top) |-> w[i] * AnchorXY(top[i].aid).x])
      wy == SumSeq([i \in 1..Len(top) |-> w[i] * AnchorXY(top[i].aid).y])
      wtot == SumSeq(w)
      at == AnchorXY(nearest_aid)
      xy == IF num_anchors >= 2
              THEN IF wtot > 0
                     THEN [x |-> Frac(wx, wtot), y |-> Frac(wy, wtot),
                           method |-> "proximity"]
                     ELSE [x |-> Frac(at.x, 1), y |-> Frac(at.y, 1),
                           method |-> "fallback_nearest"]
              ELSE [x |-> Frac(at.x, 1), y |-> Frac(at.y, 1), method |-> "single_anchor"]
  IN [x |-> xy.x, y |-> xy.y, z |-> 0, method |-> xy.method,
      q_score |-> q_score(num_anchors, k, spread_of(items)),
      nearest_anchor_id |-> nearest_aid, dist_m |-> dists[nearest_aid],
      num_anchors |-> num_anchors, dists |-> dists]

\* _last_written_ts_monotonic.get(uid, 0.0)
LastWritten(uid) ==
  IF uid \in DOMAIN last_written_ts_monotonic THEN last_written_ts_monotonic[uid] ELSE 0

\* should_throttle, its answer
should_throttle(uid) == loc_mono - LastWritten(uid) < WRITE_THROTTLE_S

\* the locator is suspended in an await
LocSuspended == loc_pc \in {"fetch", "window", "insert", "sleep", "pause"}

locRest == <<dbAnchors, dbWearables, storeOps, anchor_status, events, ingVars, top_k,
             tblVars, wsVars>>

\* time passes while the locator is suspended; a sleep ends at its interval
LocTick ==
  /\ LocSuspended /\ loc_mono < LocMaxTime
  /\ loc_pc \in {"sleep", "pause"} => loc_mono < loc_wake
  /\ loc_mono' = loc_mono + 1
  /\ UNCHANGED <<locRest, scans, positions, loc_pc, loc_wake, loc_anchors, loc_records,
                 loc_todo, last_written_ts_monotonic, loc_skips>>

\* the ingestor stores a scan row while the locator is suspended
ScanStored(a, u) ==
  /\ LocSuspended /\ Len(scans) < MaxScans
  /\ a \in dbAnchors /\ u \in dbWearables
  /\ scans' = Append(scans, Stored("scans", [n |-> Len(scans) + 1, anchor_id |-> a, uid |-> u,
                                              raw |-> NoTs, ts |-> LocNow, now_ms |-> LocNow,
                                              rssi |-> TX_POWER_DBM_AT_1M]))
  /\ UNCHANGED <<locRest, locVars>>

\* a `continue` that leaves the for loop
LocEndTick ==
  /\ loc_pc' = "sleep" /\ loc_todo' = <<>> /\ loc_records' = <<>>
  /\ loc_wake' = loc_mono + POLL_INTERVAL

\* `continue` / end of the loop body: the next uid, or the tick's sleep
LocAdvance ==
  IF Len(loc_todo) > 1
    THEN /\ loc_pc' = "throttle" /\ loc_todo' = Tail(loc_todo)
         /\ UNCHANGED <<loc_wake, loc_records>>
    ELSE /\ loc_pc' = "sleep" /\ loc_todo' = <<>> /\ loc_records' = <<>>
         /\ loc_wake' = loc_mono + POLL_INTERVAL

\* a tick starts: fetch_recent_scans returns
LocFetch ==
  /\ loc_pc = "fetch"
  /\ LET recs == fetch_recent_scans(query_seconds)
     IN IF recs = <<>>
          THEN /\ loc_pc' = "sleep" /\ loc_wake' = loc_mono + POLL_INTERVAL
               /\ loc_records' = <<>> /\ loc_todo' = <<>>
          ELSE /\ loc_records' = recs
               /\ loc_todo' \in ByUidOrders(recs)
               /\ loc_pc' = "throttle"
               /\ UNCHANGED loc_wake
  /\ loc_skips' = {}            \* the skips of the tick that starts
  /\ UNCHANGED <<locRest, scans, positions, loc_mono, loc_anchors,
                 last_written_ts_monotonic>>

\* `if should_throttle(uid): continue`; a uid that passes is stamped at once
LocThrottle ==
  /\ loc_pc = "throttle"
  /\ LET uid == Head(loc_todo)
     IN IF should_throttle(uid)
          THEN /\ loc_skips' = loc_skips \cup {[uid |-> uid, at |-> loc_mono]}
               /\ LocAdvance
               /\ UNCHANGED last_written_ts_monotonic
          ELSE /\ last_written_ts_monotonic' =
                    [u \in DOMAIN last_written_ts_monotonic \cup {uid} |->
                       IF u = uid THEN loc_mono ELSE last_written_ts_monotonic[u]]
               /\ loc_pc' = "window"
               /\ UNCHANGED <<loc_todo, loc_wake, loc_records, loc_skips>>
  /\ UNCHANGED <<locRest, scans, positions, loc_mono, loc_anchors>>

\* the window interval arrives; `if not per_anchor: continue`
LocWindow ==
  /\ loc_pc = "window"
  /\ IF per_anchor(loc_records, Head(loc_todo)) = {}
       THEN LocAdvance
       ELSE loc_pc' = "insert" /\ UNCHANGED <<loc_todo, loc_wake, loc_records>>
  /\ UNCHANGED <<locRest, scans, positions, loc_mono, loc_anchors,
                 last_written_ts_monotonic, loc_skips>>

\* INSERT INTO positions returns; emit_m is the instant the row is written
LocInsert ==
  /\ loc_pc = "insert"
  /\ LET uid == Head(loc_todo)
     IN positions' = Append(positions,
          [uid |-> uid, decided_m |-> LastWritten(uid),
           emit_m |-> loc_mono, ts |-> LocNow, anchors |-> per_anchor(loc_records, uid),
           items |-> per_anchor_items(loc_records, uid)]
          @@ estimate(per_anchor_items(loc_records, uid), top_k))
  /\ LocAdvance
  /\ UNCHANGED <<locRest, scans, loc_mono, loc_anchors,
                 last_written_ts_monotonic, loc_skips>>

\* an error handler that waits the poll interval
LocErrorPollPause ==
  /\ loc_pc \in {"fetch", "window", "insert"}
  /\ loc_pc' = "pause" /\ loc_wake' = loc_mono + POLL_INTERVAL
  /\ loc_todo' = <<>> /\ loc_records' = <<>>
  /\ UNCHANGED <<locRest, scans, positions, loc_mono, loc_anchors,
                 last_written_ts_monotonic, loc_skips>>

\* a store call of the tick raises: logged, 1 s pause, next tick
LocError ==
  /\ loc_pc \in {"fetch", "window", "insert"}
  /\ loc_pc' = "pause" /\ loc_wake' = loc_mono + ERROR_PAUSE_S
  /\ loc_todo' = <<>> /\ loc_records' = <<>>
  /\ UNCHANGED <<locRest, scans, positions, loc_mono, loc_anchors,
                 last_written_ts_monotonic, loc_skips>>

\* a tick that reads the anchors again
LocWakeFetchAnchors ==
  /\ loc_pc \in {"sleep", "pause"} /\ loc_mono >= loc_wake
  /\ loc_pc' = "fetch"
  /\ loc_anchors' = dbAnchors
  /\ UNCHANGED <<locRest, scans, positions, loc_mono, loc_wake, loc_records,
                 loc_todo, last_written_ts_monotonic, loc_skips>>

\* asyncio.sleep returns
LocWake ==
  /\ loc_pc \in {"sleep", "pause"} /\ loc_mono >= loc_wake
  /\ loc_pc' = "fetch"
  /\ UNCHANGED <<locRest, scans, positions, loc_mono, loc_wake, loc_anchors, loc_records,
                 loc_todo, last_written_ts_monotonic, loc_skips>>

NextLoc ==
  \/ LocTick
  \/ \E a \in {"A1", "Z"}, u \in WearableIds : ScanStored(a, u)
  \/ LocFetch
  \/ LocThrottle
  \/ LocWindow
  \/ LocInsert
  \/ LocError
  \/ LocWake

\* the locator runs on; anchor Z was registered after it fetched its anchors
InitLocator ==
  /\ InitIngestor /\ InitLoc /\ InitWs /\ allow_fallback = TRUE
  /\ dbAnchors = AnchorIds /\ dbWearables = WearableIds
  /\ anchor_rows = <<"A1", "A2", "Z">> /\ wearable_rows = <<"W1", "V">>

SpecLoc == InitLocator /\ [][NextLoc]_vars

\* POST /anchors while the locator runs
LocAnchorAdded(a) ==
  /\ LocSuspended /\ storeOps < MaxStoreOps /\ a \notin dbAnchors
  /\ dbAnchors' = dbAnchors \cup {a} /\ storeOps' = storeOps + 1
  /\ anchor_rows' = Append(anchor_rows, a)
  /\ UNCHANGED <<locVars, wsVars, wearable_rows, dbWearables, scans, anchor_status, events,
                 ingVars>>

NextLocAnchors ==
  \/ LocTick
  \/ LocAnchorAdded("Z")
  \/ \E a \in {"A1", "Z"} : ScanStored(a, "W1")
  \/ LocFetch
  \/ LocThrottle
  \/ LocWindow
  \/ LocInsert
  \/ LocWake

\* the locator has just fetched its anchors: A1 and A2, all the store holds
InitLocAnchors ==
  /\ InitIngestor /\ InitLoc /\ InitWs /\ allow_fallback = TRUE
  /\ dbAnchors = {"A1", "A2"} /\ dbWearables = WearableIds
  /\ anchor_rows = <<"A1", "A2">> /\ wearable_rows = <<"W1", "V">>

SpecLocAnchors == InitLocAnchors /\ [][NextLocAnchors]_vars

\* ---- one tick of the locator over every small scans table ----
EstAnchorIds == {"A1", "A2", "A3"}
EstRssi == {-39, -49, -89}
EstTs == {WallEpoch - WINDOW_SECONDS - 1, WallEpoch - WINDOW_SECONDS, WallEpoch}
TopKs == {1, 2, 3}

\* the scan rows of one wearable; the rssi of an unknown anchor's scan is
\* never read
EstRows ==
  [anchor_id : EstAnchorIds, rssi : EstRssi, ts : EstTs]
    \cup [anchor_id : {"Z"}, rssi : {TX_POWER_DBM_AT_1M}, ts : EstTs]

\* the ingestor stores a scan before the tick fetches, rows in ts order
EstScanStored ==
  /\ loc_pc = "fetch" /\ Len(scans) < MaxEstScans
  /\ \E r \in EstRows :
       /\ scans # <<>> => scans[Len(scans)].ts <= r.ts
       /\ scans' = Append(scans,
            Stored("scans", [n |-> Len(scans) + 1, anchor_id |-> r.anchor_id, uid |-> "W1",
                             raw |-> NoTs, ts |-> r.ts, now_ms |-> r.ts, rssi |-> r.rssi]))
  /\ UNCHANGED <<locRest, locVars>>

NextEst ==
  \/ EstScanStored
  \/ LocFetch
  \/ LocThrottle
  \/ LocWindow
  \/ LocInsert

\* the locator fetched anchors A1..A3; Z was registered later; TOP_K as configured
InitEst ==
  /\ InitIngestor /\ InitLocRun /\ InitWs /\ allow_fallback = TRUE
  /\ dbAnchors = EstAnchorIds \cup {"Z"} /\ dbWearables = WearableIds
  /\ anchor_rows = <<"A1", "A2", "A3", "Z">> /\ wearable_rows = <<"W1", "V">>
  /\ loc_anchors = EstAnchorIds /\ top_k \in TopKs

SpecEst == InitEst /\ [][NextEst]_vars

\* ---- the api's update queues and its websocket handler (ws_data) ----
\* the pollers that produce messages in the explored runs
FedQueues == {"positions", "stats"}

\* the ids in the order of ORDER BY id / ORDER BY uid
IdRank(id) ==
  CASE id = "A1" -> 1 [] id = "A2" -> 2 [] id = "A3" -> 3
    [] id = "V" -> 4 [] id = "W1" -> 5 [] OTHER -> 6

\* rows listed from the highest id down
order_by_id_desc(S) ==
  CHOOSE s \in Perms(S) : \A i, j \in 1..Len(s) : i < j => IdRank(s[i]) > IdRank(s[j])

order_by_id(S) ==
  CHOOSE s \in Perms(S) : \A i, j \in 1..Len(s) : i < j => IdRank(s[i]) < IdRank(s[j])

apiRest == <<storeVars, ingVars, locVars, tblVars>>
wsRest == <<apiRest, ws_alive, ws_lost, pollVars>>

\* the maxsize of each queue
WsCapOf(q) == IF q = "positions" THEN PositionsQCap ELSE UpdateQCap

\* a get that hands out the first item and leaves it in the queue
get_nowait_peek(items) == items

\* Queue.get_nowait: what stays in the queue after the first item is handed out
get_nowait_rest(items) == Tail(items)

\* a cancelled get that takes the item it was woken for with it
cancelled_get_takes(items) == IF items = <<>> THEN items ELSE Tail(items)

\* what a get that was woken and then cancelled leaves in its queue
cancelled_get_rest(items) == items

\* Queue._wakeup_next: the first waiting get of the queue is woken
WakeNext(getters, tasks, q) ==
  IF getters[q] = <<>> THEN tasks
  ELSE [tasks EXCEPT ![Head(getters[q])][q] = [st |-> "woken", item |-> 0]]

\* task.cancel() on a get that has not completed: a waiting get loses its
\* place in the queue's waiters at once, a woken one is cancelled at its next step
cancel_pending(t) ==
  IF t.st = "woken" THEN [st |-> "must_cancel", item |-> 0] ELSE NoTask

\* a client connects: websocket.accept(), ws_clients.add
WsAccept(c) ==
  /\ ws_pc[c] = "closed"
  /\ ws_pc' = [ws_pc EXCEPT ![c] = "fetch_anchors"]
  /\ ws_clients' = ws_clients \cup {c}
  /\ UNCHANGED <<wsRest, ws_dropped, ws_q, ws_getters, ws_task, ws_rows, ws_out, ws_sent, ws_next, ws_taken>>

\* SELECT ... FROM anchors ORDER BY id returns
WsFetchAnchors(c) ==
  /\ ws_pc[c] = "fetch_anchors"
  /\ ws_rows' = [ws_rows EXCEPT ![c] =
       [i \in 1..Cardinality(dbAnchors) |-> [type |-> "anchor", id |-> order_by_id(dbAnchors)[i]]]]
  /\ ws_pc' = [ws_pc EXCEPT ![c] = "send_anchors"]
  /\ UNCHANGED <<wsRest, ws_dropped, ws_q, ws_getters, ws_task, ws_out, ws_sent, ws_clients, ws_next, ws_taken>>

\* one send_json of the initial data
WsSendRow(c) ==
  /\ ws_pc[c] \in {"send_anchors", "send_wearables"} /\ ws_rows[c] # <<>>
  /\ ws_alive[c]
  /\ ws_sent' = [ws_sent EXCEPT ![c] = Append(@, Head(ws_rows[c]))]
  /\ ws_rows' = [ws_rows EXCEPT ![c] = Tail(@)]
  /\ UNCHANGED <<wsRest, ws_dropped, ws_q, ws_getters, ws_task, ws_pc, ws_out, ws_clients, ws_next, ws_taken>>

\* SELECT ... FROM wearables ORDER BY uid returns
WsFetchWearables(c) ==
  /\ ws_pc[c] = "send_anchors" /\ ws_rows[c] = <<>>
  /\ ws_rows' = [ws_rows EXCEPT ![c] =
       [i \in 1..Cardinality(dbWearables) |->
          [type |-> "wearable", id |-> order_by_id(dbWearables)[i]]]]
  /\ ws_pc' = [ws_pc EXCEPT ![c] = "send_wearables"]
  /\ UNCHANGED <<wsRest, ws_dropped, ws_q, ws_getters, ws_task, ws_out, ws_sent, ws_clients, ws_next, ws_taken>>

\* the top of `while True`: four create_task(queue.get()) and their first
\* steps, which run before the handler can resume from asyncio.wait; a get on
\* a non-empty queue completes at once, the others wait in line. The steps of
\* the gets cancelled in the previous iteration run before them.
WsLoopTop(c) ==
  /\ \/ ws_pc[c] = "send_wearables" /\ ws_rows[c] = <<>>
     \/ ws_pc[c] = "send" /\ ws_out[c] = <<>>
  /\ \A q \in WsQueues : ws_task[c][q].st = "none"
  /\ ws_task' = [ws_task EXCEPT ![c] =
       [q \in WsQueues |->
          IF ws_q[q] = <<>> THEN [st |-> "waiting", item |-> 0]
          ELSE [st |-> "done", item |-> Head(ws_q[q])]]]
  /\ ws_q' = [q \in WsQueues |-> IF ws_q[q] = <<>> THEN <<>> ELSE get_nowait_rest(ws_q[q])]
  /\ ws_getters' = [q \in WsQueues |->
       IF ws_q[q] = <<>> THEN Append(ws_getters[q], c) ELSE ws_getters[q]]
  /\ ws_taken' = ws_taken \cup
       {[n |-> Head(ws_q[q]), by |-> c] : q \in {x \in WsQueues : ws_q[x] # <<>>}}
  /\ ws_pc' = [ws_pc EXCEPT ![c] = "wait"]
  /\ UNCHANGED <<wsRest, ws_dropped, ws_rows, ws_out, ws_sent, ws_clients, ws_next>>

\* a poller's put_nowait: the message is queued and the first waiting get
\* woken; on a full queue QueueFull is raised and passed over
WsEnqueue(q) ==
  /\ ws_next <= MaxWsMsgs
  /\ IF Len(ws_q[q]) >= WsCapOf(q)
       THEN /\ ws_dropped' = ws_dropped \cup {[q |-> q, n |-> ws_next]}
            /\ UNCHANGED <<ws_q, ws_task, ws_getters>>
       ELSE /\ ws_q' = [ws_q EXCEPT ![q] = Append(@, ws_next)]
            /\ ws_task' = WakeNext(ws_getters, ws_task, q)
            /\ ws_getters' = [ws_getters EXCEPT ![q] = IF @ = <<>> THEN @ ELSE Tail(@)]
            /\ UNCHANGED ws_dropped
  /\ ws_next' = ws_next + 1
  /\ UNCHANGED <<wsRest, ws_pc, ws_rows, ws_out, ws_sent, ws_clients, ws_taken>>

\* a woken get runs: `while self.empty()` waits again, else get_nowait
WsGetStep(c, q) ==
  /\ ws_task[c][q].st = "woken"
  /\ IF ws_q[q] = <<>>
       THEN /\ ws_task' = [ws_task EXCEPT ![c][q] = [st |-> "waiting", item |-> 0]]
            /\ ws_getters' = [ws_getters EXCEPT ![q] = Append(@, c)]
            /\ UNCHANGED <<ws_q, ws_taken>>
       ELSE /\ ws_task' = [ws_task EXCEPT ![c][q] = [st |-> "done", item |-> Head(ws_q[q])]]
            /\ ws_q' = [ws_q EXCEPT ![q] = get_nowait_rest(@)]
            /\ ws_taken' = ws_taken \cup {[n |-> Head(ws_q[q]), by |-> c]}
            /\ UNCHANGED ws_getters
  /\ UNCHANGED <<wsRest, ws_dropped, ws_pc, ws_rows, ws_out, ws_sent, ws_clients, ws_next>>

\* a get that was woken and then cancelled runs: CancelledError is raised in
\* Queue.get, which wakes the next get in line if the queue is not empty
WsGetCancelled(c, q) ==
  /\ ws_task[c][q].st = "must_cancel"
  /\ ws_q' = [ws_q EXCEPT ![q] = cancelled_get_rest(@)]
  /\ LET rest == [ws_task EXCEPT ![c][q] = NoTask]
     IN IF ws_q[q] # <<>>
          THEN /\ ws_task' = WakeNext(ws_getters, rest, q)
               /\ ws_getters' = [ws_getters EXCEPT ![q] = IF @ = <<>> THEN @ ELSE Tail(@)]
          ELSE /\ ws_task' = rest
               /\ UNCHANGED ws_getters
  /\ UNCHANGED <<wsRest, ws_dropped, ws_pc, ws_rows, ws_out, ws_sent, ws_clients, ws_next, ws_taken>>

\* asyncio.wait returns: the pending gets are cancelled, the results of the
\* completed ones are to be sent (`for task in done`, a set: any order)
WsWaitReturn(c) ==
  /\ ws_pc[c] = "wait"
  /\ LET done == {q \in WsQueues : ws_task[c][q].st = "done"}
     IN \E o \in Perms(done) :
          ws_out' = [ws_out EXCEPT ![c] =
            [i \in 1..Len(o) |-> [type |-> o[i], n |-> ws_task[c][o[i]].item]]]
  /\ ws_task' = [ws_task EXCEPT ![c] = [q \in WsQueues |-> cancel_pending(ws_task[c][q])]]
  /\ ws_getters' = [q \in WsQueues |->
       IF ws_task[c][q].st = "waiting"
         THEN SelectSeq(ws_getters[q], LAMBDA x : x # c) ELSE ws_getters[q]]
  /\ ws_pc' = [ws_pc EXCEPT ![c] = "send"]
  /\ UNCHANGED <<wsRest, ws_dropped, ws_q, ws_rows, ws_sent, ws_clients, ws_next, ws_taken>>

\* the first get has completed
WsWaitDone(c) == (\E q \in WsQueues : ws_task[c][q].st = "done") /\ WsWaitReturn(c)

\* 5 s have passed without a completed get
WsWaitTimeout(c) == (\A q \in WsQueues : ws_task[c][q].st # "done") /\ WsWaitReturn(c)

\* data = await task; await websocket.send_json(data)
WsSend(c) ==
  /\ ws_pc[c] = "send" /\ ws_out[c] # <<>>
  /\ ws_alive[c]
  /\ ws_sent' = [ws_sent EXCEPT ![c] = Append(@, Head(ws_out[c]))]
  /\ ws_out' = [ws_out EXCEPT ![c] = Tail(@)]
  /\ UNCHANGED <<wsRest, ws_dropped, ws_q, ws_getters, ws_task, ws_pc, ws_rows, ws_clients, ws_next, ws_taken>>

WsHandler(c) ==
  \/ WsAccept(c)
  \/ WsFetchAnchors(c)
  \/ WsSendRow(c)
  \/ WsFetchWearables(c)
  \/ WsLoopTop(c)
  \/ WsWaitDone(c)
  \/ WsWaitTimeout(c)
  \/ WsSend(c)

WsGets(c) == \E q \in WsQueues : WsGetStep(c, q) \/ WsGetCancelled(c, q)

NextWs ==
  \/ \E q \in FedQueues : WsEnqueue(q)
  \/ \E c \in Clients : WsHandler(c)
  \/ \E c \in Clients : WsGets(c)

\* anchor A2 was registered before anchor A1
InitWsRun ==
  /\ InitIngestor /\ InitLoc /\ InitWs /\ allow_fallback = TRUE
  /\ dbAnchors = {"A1", "A2"} /\ dbWearables = {"W1"}
  /\ anchor_rows = <<"A2", "A1">> /\ wearable_rows = <<"W1">>

SpecWs == InitWsRun /\ [][NextWs]_vars

\* the event loop runs every ready callback: each handler and each get task
\* takes its steps
SpecWsFair ==
  /\ SpecWs
  /\ \A c \in Clients : WF_vars(WsHandler(c)) /\ WF_vars(WsGets(c))

\* ---- the websocket handler with clients that go away ----
\* the client closes its connection; the handler never calls receive(), so it
\* learns of it only through a send that raises
WsDisconnect(c) ==
  /\ c \in ws_clients /\ ws_alive[c]
  /\ ws_alive' = [ws_alive EXCEPT ![c] = FALSE]
  /\ UNCHANGED <<apiRest, pollVars, ws_dropped, ws_q, ws_getters, ws_task, ws_pc, ws_rows, ws_out, ws_sent,
                 ws_clients, ws_next, ws_taken, ws_lost>>

\* a send_json of the initial data raises: the outer except clauses log it and
\* `finally` discards the client; the handler returns
WsSendRowFail(c) ==
  /\ ws_pc[c] \in {"send_anchors", "send_wearables"} /\ ws_rows[c] # <<>>
  /\ ~ws_alive[c]
  /\ ws_rows' = [ws_rows EXCEPT ![c] = <<>>]
  /\ ws_clients' = ws_clients \ {c}
  /\ ws_pc' = [ws_pc EXCEPT ![c] = "exited"]
  /\ UNCHANGED <<apiRest, pollVars, ws_dropped, ws_q, ws_getters, ws_task, ws_out, ws_sent, ws_next, ws_taken,
                 ws_alive, ws_lost>>

\* a send_json inside `for task in done` raises: `except Exception` prints the
\* error and the for loop goes on with the next completed task
WsSendFail(c) ==
  /\ ws_pc[c] = "send" /\ ws_out[c] # <<>>
  /\ ~ws_alive[c]
  /\ ws_lost' = ws_lost \cup {[n |-> Head(ws_out[c]).n, by |-> c]}
  /\ ws_out' = [ws_out EXCEPT ![c] = Tail(@)]
  /\ UNCHANGED <<apiRest, pollVars, ws_dropped, ws_q, ws_getters, ws_task, ws_pc, ws_rows, ws_sent, ws_clients,
                 ws_next, ws_taken, ws_alive>>

NextWsFail ==
  \/ NextWs
  \/ \E c \in Clients : WsDisconnect(c)
  \/ \E c \in Clients : WsSendRowFail(c)
  \/ \E c \in Clients : WsSendFail(c)

SpecWsFail == InitWsRun /\ [][NextWsFail]_vars

\* ---- the api's pollers (poll_positions, poll_stats, poll_scans, poll_anchor_status) ----
PollNow == WallEpoch + poll_mono                        \* datetime.utcnow()

\* the variables of the websocket clients that no poller touches
wsClientVars == <<ws_pc, ws_rows, ws_out, ws_sent, ws_clients, ws_taken, ws_alive, ws_lost>>
\* the variables of the locator run, the positions table apart
posRest == <<loc_pc, loc_mono, loc_wake, loc_anchors, loc_records, loc_todo,
             last_written_ts_monotonic, loc_skips, top_k>>
pollRest == <<storeVars, ingVars, locVars, tblVars, wsClientVars>>

\* a put_nowait that makes room by discarding the oldest message
put_one_evict(s, qn, m) ==
  [q |-> IF Len(s.q) >= WsCapOf(qn) THEN Append(Tail(s.q), m) ELSE Append(s.q, m),
   g |-> IF s.g = <<>> THEN s.g ELSE Tail(s.g),
   t |-> IF s.g = <<>> THEN s.t
         ELSE [s.t EXCEPT ![Head(s.g)][qn] = [st |-> "woken", item |-> 0]],
   d |-> s.d]

\* try: queue.put_nowait(data) / except asyncio.QueueFull: pass, on queue qn
\* with items s.q, waiting gets s.g and get tasks s.t; s.d collects the drops
put_one(s, qn, m) ==
  IF Len(s.q) >= WsCapOf(qn)
    THEN [s EXCEPT !.d = @ \cup {[q |-> qn, n |-> m]}]
    ELSE [q |-> Append(s.q, m),
          g |-> IF s.g = <<>> THEN s.g ELSE Tail(s.g),
          t |-> IF s.g = <<>> THEN s.t
                ELSE [s.t EXCEPT ![Head(s.g)][qn] = [st |-> "woken", item |-> 0]],
          d |-> s.d]

\* `for row in rows:` with one put_nowait per row; no await in between
RECURSIVE put_rows(_, _, _)
put_rows(s, qn, msgs) ==
  IF msgs = <<>> THEN s ELSE put_rows(put_one(s, qn, Head(msgs)), qn, Tail(msgs))

\* a poller turns the rows of its query into messages and puts them on its queue
Emit(qn, rows) ==
  LET k == Len(rows)
      ids == [i \in 1..k |-> ws_next + i - 1]
      s == put_rows([q |-> ws_q[qn], g |-> ws_getters[qn], t |-> ws_task, d |-> ws_dropped],
                    qn, ids)
  IN /\ ws_next + k - 1 <= MaxPollMsgs
     /\ ws_q' = [ws_q EXCEPT ![qn] = s.q]
     /\ ws_getters' = [ws_getters EXCEPT ![qn] = s.g]
     /\ ws_task' = s.t
     /\ ws_dropped' = s.d
     /\ ws_next' = ws_next + k
     /\ poll_log' = poll_log \o
          [i \in 1..k |-> [n |-> ids[i], q |-> qn, type |-> rows[i].type, id |-> rows[i].id,
                           uid |-> rows[i].uid, ts |-> rows[i].ts, at |-> poll_mono]]

\* rows of the positions table with ts > time_ago
recent_positions(time_ago) == {i \in 1..Len(positions) : positions[i].ts > time_ago}

distinct_on_uid_any(time_ago) ==
  LET rec == recent_positions(time_ago)
      uids == {positions[i].uid : i \in rec}
  IN {{pick[u] : u \in uids} :
        pick \in {f \in [uids -> rec] : \A u \in uids : positions[f[u]].uid = u}}

\* SELECT DISTINCT ON (uid) ... WHERE ts > $1 ORDER BY uid, ts DESC: the sets of
\* row numbers the query can return, one row per uid, a newest one
distinct_on_uid(time_ago) ==
  LET rec == recent_positions(time_ago)
      uids == {positions[i].uid : i \in rec}
      newest(u) == {i \in rec : /\ positions[i].uid = u
                                /\ \A j \in rec : positions[j].uid = u
                                                     => positions[j].ts <= positions[i].ts}
  IN {{pick[u] : u \in uids} : pick \in {f \in [uids -> rec] : \A u \in uids : f[u] \in newest(u)}}

\* the rows in ORDER BY uid, as the messages the loop builds from them
position_messages(rowset) ==
  LET uids == order_by_id({positions[i].uid : i \in rowset})
  IN [k \in 1..Len(uids) |->
        LET i == CHOOSE j \in rowset : positions[j].uid = uids[k]
        IN [type |-> "position", id |-> i, uid |-> uids[k], ts |-> positions[i].ts]]

\* time passes while the poller is suspended; its sleep returns on time
PollTick ==
  /\ poll_mono < PollHorizon
  /\ poll_pc = "sleep" => poll_mono < poll_wake
  /\ poll_mono' = poll_mono + 1
  /\ UNCHANGED <<pollRest, ws_q, ws_getters, ws_task, ws_next, ws_dropped, poll_pc,
                 poll_connection, poll_conns, poll_nconn, poll_faults, poll_wake, poll_log>>

\* the locator inserts a position of uid u
PositionStored(u) ==
  /\ Len(positions) < MaxPollRows
  /\ positions' = Append(positions, [uid |-> u, ts |-> PollNow])
  /\ UNCHANGED <<storeVars, ingVars, posRest, tblVars, wsClientVars, ws_q, ws_getters,
                 ws_task, ws_next, ws_dropped, pollVars>>

\* the server or the network closes a connection of the process
ConnLost ==
  /\ poll_faults < MaxFaults
  /\ \E c \in poll_conns : poll_conns' = poll_conns \ {c}
  /\ poll_faults' = poll_faults + 1
  /\ UNCHANGED <<pollRest, ws_q, ws_getters, ws_task, ws_next, ws_dropped, poll_pc,
                 poll_connection, poll_nconn, poll_mono, poll_wake, poll_log>>

\* asyncio.sleep(2) is over: `if poll_connection is None or is_closed()`
\* leads to asyncpg.connect, else to the fetch
PollWake ==
  /\ poll_pc = "sleep" /\ poll_mono >= poll_wake
  /\ poll_pc' = IF poll_connection = 0 \/ poll_connection \notin poll_conns
                  THEN "connect" ELSE "fetch"
  /\ UNCHANGED <<pollRest, ws_q, ws_getters, ws_task, ws_next, ws_dropped,
                 poll_connection, poll_conns, poll_nconn, poll_faults, poll_mono, poll_wake,
                 poll_log>>

\* asyncpg.connect returns a new connection
PollConnected ==
  /\ poll_pc = "connect"
  /\ poll_nconn' = poll_nconn + 1
  /\ poll_connection' = poll_nconn + 1
  /\ poll_conns' = poll_conns \cup {poll_nconn + 1}
  /\ poll_pc' = "fetch"
  /\ UNCHANGED <<pollRest, ws_q, ws_getters, ws_task, ws_next, ws_dropped, poll_faults,
                 poll_mono, poll_wake, poll_log>>

\* the except clause of the poller: the error is printed, poll_connection is
\* set to None (the connection object is not closed) and the loop sleeps 2 s
PollExcept ==
  /\ poll_connection' = 0
  /\ poll_pc' = "sleep"
  /\ poll_wake' = poll_mono + POSITIONS_POLL_S
  /\ UNCHANGED <<pollRest, ws_q, ws_getters, ws_task, ws_next, ws_dropped, poll_conns,
                 poll_nconn, poll_mono, poll_log>>

\* asyncpg.connect raises
PollConnectFail ==
  /\ poll_pc = "connect" /\ poll_faults < MaxFaults
  /\ poll_faults' = poll_faults + 1
  /\ PollExcept

\* the fetch returns: one message per row is put on the positions queue, then
\* the poller sleeps 2 s
PollFetched ==
  /\ poll_pc = "fetch" /\ poll_connection \in poll_conns
  /\ \E rowset \in distinct_on_uid(PollNow - POSITIONS_RECENT_S) :
       Emit("positions", position_messages(rowset))
  /\ poll_pc' = "sleep"
  /\ poll_wake' = poll_mono + POSITIONS_POLL_S
  /\ UNCHANGED <<pollRest, poll_connection, poll_conns, poll_nconn, poll_faults, poll_mono>>

\* the fetch raises on a connection that was lost
PollFetchLost ==
  /\ poll_pc = "fetch" /\ poll_connection \notin poll_conns
  /\ UNCHANGED poll_faults
  /\ PollExcept

\* the fetch raises on an open connection (statement error, timeout)
PollFetchFail ==
  /\ poll_pc = "fetch" /\ poll_connection \in poll_conns /\ poll_faults < MaxFaults
  /\ poll_faults' = poll_faults + 1
  /\ PollExcept

\* a cycle of poll_stats: one message with the five counts
PollStats ==
  /\ Emit("stats", <<[type |-> "stats", id |-> 0, uid |-> NoId, ts |-> PollNow]>>)
  /\ UNCHANGED <<pollRest, poll_pc, poll_connection, poll_conns, poll_nconn, poll_faults,
                 poll_mono, poll_wake>>

\* the steps of poll_positions
PollPositions ==
  \/ PollWake
  \/ PollConnected
  \/ PollConnectFail
  \/ PollFetched
  \/ PollFetchLost
  \/ PollFetchFail

\* the pollers filling their queues while the store answers every call and no
\* websocket client is connected
NextPoll ==
  \/ PollTick
  \/ \E u \in WearableIds : PositionStored(u)
  \/ PollWake
  \/ PollConnected
  \/ PollFetched
  \/ PollStats

\* startup may have failed to open the poll connection
InitPollRun ==
  /\ InitIngestor /\ InitLoc /\ InitWsClients /\ allow_fallback = TRUE
  /\ \E conn \in {0, 1} : InitPoller(conn)
  /\ dbAnchors = {"A1"} /\ dbWearables = {"W1"}
  /\ anchor_rows = <<"A1">> /\ wearable_rows = <<"W1">>

SpecPoll == InitPollRun /\ [][NextPoll]_vars

\* poll_positions on an empty positions table with a store that fails
NextPollConn ==
  \/ PollTick
  \/ ConnLost
  \/ PollPositions

SpecPollConn == InitPollRun /\ [][NextPollConn]_vars

\* the positions poller alone, on a table that may hold a row written 8 to
\* 10 s before the api started
NextPollPos ==
  \/ PollTick
  \/ \E u \in WearableIds : PositionStored(u)
  \/ PollWake
  \/ PollConnected
  \/ PollFetched

InitPollPos ==
  /\ InitIngestor /\ InitWsClients /\ allow_fallback = TRUE
  /\ \E rows \in {<<>>} \cup {<<[uid |-> u, ts |-> WallEpoch - d]>> :
                                  u \in WearableIds, d \in 8..POSITIONS_RECENT_S} :
       InitLocAt(rows)
  /\ loc_anchors = {"A1"} /\ top_k = TOP_K
  /\ \E conn \in {0, 1} : InitPoller(conn)
  /\ dbAnchors = {"A1"} /\ dbWearables = {"W1"}
  /\ anchor_rows = <<"A1">> /\ wearable_rows = <<"W1">>

SpecPollPos == InitPollPos /\ [][NextPollPos]_vars

\* ======================================================== claims: ingestor
AllQueued == Range(scan_q) \cup Range(status_q) \cup Range(event_q)
AllBuffered == Range(scans_buf) \cup Range(status_buf) \cup Range(events_buf)
AllRows == Range(scans) \cup Range(anchor_status) \cup Range(events)

\* the ids of a record are in the known-ID cache (scan: both, status: the
\* anchor, event: the uid)
IdsKnown(k, m) ==
  /\ k \in {"scans", "status"} => m.anchor_id \in known.anchors
  /\ k \in {"scans", "events"} => m.uid \in known.wearables

C2_UnknownFkSkippedOnly ==
  pc \in {"insert", "retry", "returned"} =>
    LET batch == BufOf(fkind)
        usable == {i \in 1..Len(batch) : ~(batch[i].ts = NoTs /\ ~allow_fallback)}
        unk == {i \in usable : ~IdsKnown(fkind, batch[i])}
        ok == {batch[i].n : i \in usable \ unk}
    IN /\ \A i \in unk : batch[i].n \notin Ns(TableOf(fkind)) \cup Ns(valid)
       /\ skipped = Cardinality(unk)
       /\ pc = "insert" => Ns(valid) = ok
       /\ (pc = "returned" /\ mode = "bulk") => ok \subseteq Ns(TableOf(fkind))
       /\ (pc = "returned" /\ mode = "retry") => ok \subseteq Ns(scans) \cup rejected
       /\ (pc = "returned" /\ mode = "empty") => ok = {}

\* a flusher returned after a bulk insert of a batch that held an unknown record
\* beside a known one
C2_Witness ==
  /\ pc = "returned" /\ mode = "bulk" /\ skipped >= 1
  /\ Len(BufOf(fkind)) >= 2 /\ valid # <<>>

\* C3: every persisted row carries TS_MIN_EPOCH_MS <= ts <= now_ms + 1 year
\* (now_ms: the wall clock when it was normalized); a missing or out-of-range
\* ts was replaced by now_ms, an in-range ts was kept, and with fallback
\* disabled no record without ts is persisted.
C3_TsNormalized ==
  \A r \in AllRows :
    /\ TS_MIN_EPOCH_MS <= r.ts /\ r.ts <= r.now_ms + YEAR_MS
    /\ r.raw = NoTs => allow_fallback /\ r.ts = r.now_ms
    /\ r.raw # NoTs =>
         IF r.raw[1] < TS_MIN_EPOCH_MS \/ r.raw[1] > r.now_ms + YEAR_MS
         THEN r.ts = r.now_ms ELSE r.ts = r.raw[1]

\* a scan whose future ts was replaced is stored beside one whose ts was kept
C3_Witness ==
  /\ \E r \in Range(scans) : r.raw # NoTs /\ r.raw[1] > r.now_ms + YEAR_MS
  /\ \E r \in Range(scans) : r.raw # NoTs /\ r.ts = r.raw[1]

\* C4 (as claimed): after a graceful shutdown every accepted record whose ids
\* are known has been inserted (stated for the records still queued or buffered).
C4_AcceptedAreInserted ==
  pc = "done" =>
    /\ \A m \in Range(scan_q) \cup Range(scans_buf) :
         IdsKnown("scans", m) /\ FkHolds("scans", m) => m.n \in Ns(scans)
    /\ \A m \in Range(status_q) \cup Range(status_buf) :
         IdsKnown("status", m) /\ FkHolds("status", m) => m.n \in Ns(anchor_status)
    /\ \A m \in Range(event_q) \cup Range(events_buf) :
         IdsKnown("events", m) /\ FkHolds("events", m) => m.n \in Ns(events)

C6_FlushErrorKeepsLoop == ~(exc # "none" /\ phase = "loop" /\ pc = "crashed")

\* C7 (as claimed): once the process has ended after a termination signal,
\* every record left in the three buffers was handed to its flusher and the
\* bus connection and the pool are closed.
C7_ShutdownFlushesBuffers ==
  (stop /\ pc \in {"done", "crashed"}) =>
    /\ Ns(scans_buf) \cup Ns(status_buf) \cup Ns(events_buf) \subseteq handed
    /\ ~mqtt_connected /\ ~pool_open

\* C8: no queue ever holds more than its capacity; a message is dropped only
\* when its queue is at capacity, and it is then in no queue or buffer and is
\* never flushed; every other delivered message is still queued, buffered or
\* was handed to a flusher (none is displaced by a drop).
C8_FullQueueDropsNewest ==
  /\ Len(scan_q) <= ScanQCap /\ Len(status_q) <= StatusQCap /\ Len(event_q) <= EventQCap
  /\ \A d \in dropped :
       /\ d.qlen = CapOf(d.kind)
       /\ d.n \notin Ns(scan_q) \cup Ns(status_q) \cup Ns(event_q)
       /\ d.n \notin Ns(scans_buf) \cup Ns(status_buf) \cup Ns(events_buf) \cup handed
  /\ \A n \in 1..delivered :
       \/ \E d \in dropped : d.n = n
       \/ n \in Ns(scan_q) \cup Ns(status_q) \cup Ns(event_q)
       \/ n \in Ns(scans_buf) \cup Ns(status_buf) \cup Ns(events_buf) \cup handed

\* a message was dropped and the loop went on to flush the ones it had queued
C8_Witness == dropped # {} /\ pc = "returned" /\ mode = "bulk"

\* ========================================================= claims: locator
\* C9 (as claimed): any two position rows of the same uid are written at least
\* WRITE_THROTTLE_S apart on the locator's monotonic clock.
C9_EmitsThrottleApart ==
  \A i, j \in 1..Len(positions) :
    (i < j /\ positions[i].uid = positions[j].uid)
      => positions[j].emit_m - positions[i].emit_m >= WRITE_THROTTLE_S

\* C10 (as claimed): a uid is skipped by the throttle only if a position row of that uid was
\* written less than WRITE_THROTTLE_S before the skip.
C10_ThrottledOnlyAfterEmit ==
  \A s \in loc_skips :
    \E i \in 1..Len(positions) :
      /\ positions[i].uid = s.uid
      /\ positions[i].emit_m <= s.at
      /\ s.at - positions[i].emit_m < WRITE_THROTTLE_S


\* C11: every Position row with num_anchors = 1 has method single_anchor, x and y
\* equal to the coordinates of its nearest anchor, and q_score exactly 0.4
C11_SingleAnchorRow ==
  \A i \in 1..Len(positions) :
    LET p == positions[i]
    IN p.num_anchors = 1 =>
         /\ p.method = "single_anchor"
         /\ FracEq(p.x, Frac(AnchorXY(p.nearest_anchor_id).x, 1))
         /\ FracEq(p.y, Frac(AnchorXY(p.nearest_anchor_id).y, 1))
         /\ FracEq(p.q_score, Frac(4, 10))

\* a row from one anchor heard twice, away from the origin
C11_Witness ==
  \E i \in 1..Len(positions) :
    /\ positions[i].num_anchors = 1 /\ positions[i].nearest_anchor_id = "A2"
    /\ Cardinality({j \in 1..Len(scans) : scans[j].anchor_id = "A2"}) >= 2

\* the scans of a uid that lie inside its window (aligned to its newest scan)
\* and come from an anchor the locator knows
InWindow(uid) ==
  LET mine == {r \in Range(scans) : r.uid = uid /\ r.ts > LocNow - query_seconds}
      latest == MaxOf({r.ts : r \in mine})
  IN {r \in mine : r.ts >= latest - WINDOW_SECONDS /\ r.anchor_id \in loc_anchors}

Retained(uid) == {r.anchor_id : r \in InWindow(uid)}

BestRssi(uid, aid) == MaxOf({r.rssi : r \in {x \in InWindow(uid) : x.anchor_id = aid}})

\* C12: dists has exactly num_anchors entries, one per known anchor retained in
\* the uid's window; nearest_anchor_id is a retained anchor of the highest best
\* rssi and a key of dists; dist_m is dists[nearest_anchor_id]
C12_DistsAndNearest ==
  \A i \in 1..Len(positions) :
    LET p == positions[i]
    IN /\ DOMAIN p.dists = Retained(p.uid)
       /\ Cardinality(DOMAIN p.dists) = p.num_anchors
       /\ p.nearest_anchor_id \in DOMAIN p.dists
       /\ \A a \in Retained(p.uid) :
            BestRssi(p.uid, a) <= BestRssi(p.uid, p.nearest_anchor_id)
       /\ p.dist_m = p.dists[p.nearest_anchor_id]

\* a row of two retained anchors, with the unknown Z in the window as well and
\* the strongest anchor not the newest one
C12_Witness ==
  \E i \in 1..Len(positions) :
    /\ positions[i].num_anchors = 2
    /\ positions[i].nearest_anchor_id # positions[i].items[1].aid
    /\ \E r \in Range(scans) : r.anchor_id = "Z" /\ r.ts = LocNow

\* C13: every Position row has 0 <= q_score <= 1, whatever the number of retained
\* anchors (one, 2..TOP_K, more than TOP_K), the rssi spread (above 40 dB too)
\* and TOP_K >= 1
C13_QScoreInUnitInterval ==
  \A i \in 1..Len(positions) :
    /\ positions[i].q_score.den > 0
    /\ FracLe(Frac(0, 1), positions[i].q_score)
    /\ FracLe(positions[i].q_score, Frac(1, 1))

\* more anchors than TOP_K and a spread above 40 dB in one row
C13_Witness ==
  \E i \in 1..Len(positions) :
    /\ positions[i].num_anchors > top_k
    /\ spread_of(positions[i].items) > 40

\* position p against the segment from anchor a to anchor b: Along is the
\* projection parameter t of p scaled by p's denominator and |ab|^2, so that
\* t = 0 at a, 1/2 at the midpoint and 1 at b
OnLine(p, a, b) ==
  (p.x.num - AnchorXY(a).x * p.x.den) * (AnchorXY(b).y - AnchorXY(a).y)
    = (p.y.num - AnchorXY(a).y * p.y.den) * (AnchorXY(b).x - AnchorXY(a).x)
Along(p, a, b) ==
  (p.x.num - AnchorXY(a).x * p.x.den) * (AnchorXY(b).x - AnchorXY(a).x)
    + (p.y.num - AnchorXY(a).y * p.y.den) * (AnchorXY(b).y - AnchorXY(a).y)
Full(p, a, b) ==
  p.x.den * ((AnchorXY(b).x - AnchorXY(a).x) * (AnchorXY(b).x - AnchorXY(a).x)
             + (AnchorXY(b).y - AnchorXY(a).y) * (AnchorXY(b).y - AnchorXY(a).y))

\* the columns the two-anchor scenario expects, apart from where on the
\* segment the point lies
TwoAnchorColumns(p, a, b) ==
  /\ p.method = "proximity" /\ p.num_anchors = 2 /\ p.nearest_anchor_id = a
  /\ DOMAIN p.dists = {a, b} /\ p.z = 0
  /\ FracLt(Frac(0, 1), p.q_score) /\ FracLe(p.q_score, Frac(1, 1))
  /\ p.x.den = p.y.den /\ p.x.den > 0
  /\ OnLine(p, a, b) /\ 0 <= Along(p, a, b)

\* the rows of a uid heard by exactly the known anchors a and b, stronger at a
TwoAnchorRows(a, b) ==
  {i \in 1..Len(positions) :
     /\ Retained(positions[i].uid) = {a, b} /\ a # b
     /\ BestRssi(positions[i].uid, a) > BestRssi(positions[i].uid, b)}

\* C14 (as claimed): for a uid heard by exactly two known anchors, stronger at A,
\* the row has method proximity, num_anchors 2, nearest A, dists keys {A, B},
\* z = 0, 0 < q_score <= 1 and a point on the segment strictly closer to A
C14_StrictlyCloserToStronger ==
  \A a, b \in EstAnchorIds : \A i \in TwoAnchorRows(a, b) :
    /\ TwoAnchorColumns(positions[i], a, b)
    /\ 2 * Along(positions[i], a, b) < Full(positions[i], a, b)

\* C14 (amended): the same columns, and a point on the segment no farther from
\* A than from B: strictly closer to A when B's distance is above the weight
\* clamp or TOP_K = 1, and the midpoint when both distances are at or under
\* the clamp and TOP_K >= 2
C14_TwoAnchorPull ==
  \A a, b \in EstAnchorIds : \A i \in TwoAnchorRows(a, b) :
    LET p == positions[i]
        far == p.dists[b] > WEIGHT_DIST_CLAMP_DM * WEIGHT_DIST_CLAMP_DM
    IN /\ TwoAnchorColumns(p, a, b)
       /\ IF far \/ top_k = 1
            THEN 2 * Along(p, a, b) < Full(p, a, b)
            ELSE 2 * Along(p, a, b) = Full(p, a, b)

\* A1 at (0,0) stronger than A2 at (10,0), A2 farther than the clamp, both in
\* the centroid: 0 < x < 5
C14_Witness ==
  \E i \in TwoAnchorRows("A1", "A2") :
    /\ top_k >= 2
    /\ positions[i].dists["A2"] > WEIGHT_DIST_CLAMP_DM * WEIGHT_DIST_CLAMP_DM
    /\ FracLt(Frac(0, 1), positions[i].x) /\ FracLt(positions[i].x, Frac(5, 1))
    /\ FracEq(positions[i].y, Frac(0, 1))

\* no scan row is younger than the query window
WindowEmpty == \A r \in Range(scans) : r.ts <= LocNow - query_seconds

\* C15: a tick whose scan window is empty inserts no Position row and changes no
\* throttle entry, and the loop goes on: it sleeps POLL_INTERVAL and then
\* fetches again
C15_EmptyWindowTick ==
  [][/\ (loc_pc = "fetch" /\ WindowEmpty /\ loc_pc' \notin {"fetch", "pause"}) =>
          /\ loc_pc' = "sleep" /\ loc_wake' = loc_mono + POLL_INTERVAL
          /\ positions' = positions
          /\ last_written_ts_monotonic' = last_written_ts_monotonic
     /\ (loc_pc = "sleep" /\ loc_pc' # "sleep") =>
          loc_pc' = "fetch" /\ loc_mono = loc_wake]_vars

\* the locator sleeps right after a tick that found only scans older than the
\* window, with a throttle entry and a row from an earlier tick
C15_Witness ==
  /\ loc_pc = "sleep" /\ loc_wake = loc_mono + POLL_INTERVAL
  /\ WindowEmpty /\ scans # <<>>
  /\ positions # <<>> /\ DOMAIN last_written_ts_monotonic # {}

\* every fetched scan of the uid inside its window comes from an anchor that
\* is not in the locator's anchor table
AllUnknown(uid) ==
  LET mine == {r \in Range(loc_records) : r.uid = uid}
  IN \A r \in mine :
       (\A o \in mine : r.ts >= o.ts - WINDOW_SECONDS) => r.anchor_id \notin loc_anchors

\* C16: a uid whose in-window scans all come from unknown anchors gets no
\* Position row in that tick, and the tick goes on to the other uids
C16_UnknownAnchorsOnly ==
  [][/\ (/\ loc_pc = "window" /\ AllUnknown(Head(loc_todo))
         /\ loc_pc' \notin {"window", "pause"}) =>
          /\ positions' = positions
          /\ IF Len(loc_todo) > 1
               THEN loc_pc' = "throttle" /\ loc_todo' = Tail(loc_todo)
               ELSE loc_pc' = "sleep"
     /\ positions' # positions =>
          /\ ~AllUnknown(Head(loc_todo))
          /\ positions' = Append(positions, positions'[Len(positions')])
          /\ positions'[Len(positions')].uid = Head(loc_todo)]_vars

\* W1 was heard by the unknown Z only and got no row; the tick is at its next uid
C16_Witness ==
  /\ loc_pc = "throttle" /\ Len(loc_todo) = 1
  /\ \E u \in {r.uid : r \in Range(loc_records)} \ Range(loc_todo) :
       /\ AllUnknown(u)
       /\ u \in DOMAIN last_written_ts_monotonic
       /\ \A i \in 1..Len(positions) : positions[i].uid # u

LatestTs(uid, aid) == MaxOf({r.ts : r \in {x \in InWindow(uid) : x.anchor_id = aid}})

\* the fetched records without the rows that are older than the uid's window
\* or come from an unknown anchor
KeptRecords(uid) ==
  SelectSeq(fetch_recent_scans(query_seconds), LAMBDA r : r \in InWindow(uid))

\* C17: a row is computed only from the scans with ts >= uid_latest -
\* WINDOW_SECONDS: per known anchor the retained rssi is the maximum and the
\* retained ts the latest of those scans; older scans and scans of unknown
\* anchors contribute to neither dists nor the position
C17_OnlyWindowScansCount ==
  \A i \in 1..Len(positions) :
    LET p == positions[i]
        only == estimate(per_anchor_items(KeptRecords(p.uid), p.uid), top_k)
    IN /\ {p.items[k].aid : k \in 1..Len(p.items)} = Retained(p.uid)
       /\ \A k \in 1..Len(p.items) :
            /\ p.items[k].best_rssi = BestRssi(p.uid, p.items[k].aid)
            /\ p.items[k].latest_ts = LatestTs(p.uid, p.items[k].aid)
            /\ p.dists[p.items[k].aid] = rssi_to_distance(BestRssi(p.uid, p.items[k].aid))
       /\ p.dists = only.dists
       /\ FracEq(p.x, only.x) /\ FracEq(p.y, only.y) /\ p.method = only.method

\* a row whose anchor also has an older, stronger scan outside the window,
\* with a scan of the unknown Z in the table
C17_Witness ==
  \E i \in 1..Len(positions) : \E r, z \in Range(scans) :
    /\ r.anchor_id \in Retained(positions[i].uid) /\ r \notin InWindow(positions[i].uid)
    /\ r.rssi > BestRssi(positions[i].uid, r.anchor_id)
    /\ z.anchor_id = "Z"

\* the messages of an initial snapshot that lists the anchors and the
\* wearables in the given orders
SnapshotOf(as, ws) ==
  [i \in 1..Len(as) |-> [type |-> "anchor", id |-> as[i]]]
    \o [i \in 1..Len(ws) |-> [type |-> "wearable", id |-> ws[i]]]

IsPrefix(s, t) == Len(s) <= Len(t) /\ \A i \in 1..Len(s) : s[i] = t[i]

InSnapshot(c) == ws_pc[c] \in {"closed", "fetch_anchors", "send_anchors", "send_wearables"}

\* what client c has received is the snapshot `snap`, complete before the
\* first update, or a part of it while the snapshot is being sent
SnapshotFirst(c, snap) ==
  IF InSnapshot(c)
    THEN IsPrefix(ws_sent[c], snap)
    ELSE /\ IsPrefix(snap, ws_sent[c])
         /\ \A i \in (Len(snap) + 1)..Len(ws_sent[c]) : ws_sent[c][i].type \in WsQueues

\* C18 (as claimed): a client receives, before any queue update, one anchor
\* message per existing anchor and then one wearable message per existing
\* wearable, each group in insertion order; updates follow only after that
C18_SnapshotInInsertionOrder ==
  \A c \in Clients : SnapshotFirst(c, SnapshotOf(anchor_rows, wearable_rows))

\* C18 (amended): the same, with each group in ascending order of id (anchors)
\* and of uid (wearables), whatever the order of insertion
C18_SnapshotInIdOrder ==
  \A c \in Clients :
    \E as \in Perms(dbAnchors), ws \in Perms(dbWearables) :
      /\ \A i, j \in 1..Len(as) : i < j => IdRank(as[i]) < IdRank(as[j])
      /\ \A i, j \in 1..Len(ws) : i < j => IdRank(ws[i]) < IdRank(ws[j])
      /\ SnapshotFirst(c, SnapshotOf(as, ws))

\* A2 was inserted before A1; a client got anchor A1, anchor A2, wearable W1
\* and then an update
C18_Witness ==
  /\ anchor_rows = <<"A2", "A1">>
  /\ \E c \in Clients :
       /\ Len(ws_sent[c]) = 4
       /\ ws_sent[c][1] = [type |-> "anchor", id |-> "A1"]
       /\ ws_sent[c][4].type \in WsQueues

\* message n waits in a queue / has been handed to a get of some handler
Queued(n) == \E q \in WsQueues : \E i \in 1..Len(ws_q[q]) : ws_q[q][i] = n
Taken(n) == \E t \in ws_taken : t.n = n

\* some handler is in its multiplex loop
HandlerInLoop == \E c \in Clients : ws_pc[c] \in {"wait", "send"}

\* C19: with several clients connected and any interleaving of handlers, gets
\* and pollers, a message is never handed to two handlers, and a message that
\* waits in a queue while a handler is in its multiplex loop is taken by one
C19_TakenByExactlyOne ==
  /\ [](\A t, u \in ws_taken : t.n = u.n => t = u)
  /\ \A n \in 1..MaxWsMsgs : (Queued(n) /\ HandlerInLoop) ~> Taken(n)

\* both clients are in the loop: d's wait ended on a stats message and
\* cancelled its get on the positions queue, c's get took a positions message
\* that d never got
C19_Witness ==
  \E c, d \in Clients :
    /\ c # d
    /\ ws_task[c]["positions"].st = "done" /\ [n |-> ws_task[c]["positions"].item, by |-> c] \in ws_taken
    /\ ws_pc[d] = "send" /\ ws_out[d] # <<>> /\ ws_out[d][1].type = "stats"
    /\ ws_task[d]["positions"].st = "none"
    /\ \A t \in ws_taken : t.by = d => t.n # ws_task[c]["positions"].item

\* message n is the result of a completed get: held by the done task, waiting
\* to be sent, or sent
Returned(n) ==
  \E c \in Clients :
    \/ \E q \in WsQueues : ws_task[c][q].st = "done" /\ ws_task[c][q].item = n
    \/ \E i \in 1..Len(ws_out[c]) : ws_out[c][i].n = n
    \/ \E i \in 1..Len(ws_sent[c]) : ws_sent[c][i].type \in WsQueues /\ ws_sent[c][i].n = n

\* C20: cancelling the gets that have not completed, after a completion or
\* after the timeout, removes no message: at every moment each enqueued
\* message is either still in its queue or was returned by a completed get,
\* also when it was enqueued between the completion and the cancellation
C20_CancelLosesNoMessage ==
  \A n \in (1..(ws_next - 1)) \ {d.n : d \in ws_dropped} :
    /\ Queued(n) \/ Returned(n)
    /\ ~(Queued(n) /\ Returned(n))

\* a get completed on one queue, a message arrived on the other queue and
\* woke its get, then the handler resumed and cancelled that get: the message
\* is still queued
C20_Witness ==
  \E c \in Clients, q \in WsQueues :
    /\ ws_pc[c] = "send" /\ ws_out[c] # <<>>
    /\ ws_task[c][q].st = "must_cancel"
    /\ ws_q[q] # <<>>

\* ======================================================== claims: failures
\* C21 (as claimed): a client to which a send has failed, in the initial data or in
\* the loop, is out of the active set and its handler has exited; it takes no
\* message from any queue afterwards.
C21_SendFailureEndsHandler ==
  \A c \in Clients :
    (\E m \in ws_lost : m.by = c)
      => /\ c \notin ws_clients
         /\ ws_pc[c] = "exited"
         /\ \A q \in WsQueues : ws_task[c][q].st \in {"none", "must_cancel"}

\* the messages produced by the step that is being taken
Produced == {poll_log'[i] : i \in (Len(poll_log) + 1)..Len(poll_log')}

\* C22: no queue ever holds more than its capacity, and in every step of a
\* poller a message produced while its queue is full is dropped, the queue
\* keeps the messages it held in their order, every other produced message is
\* appended, and the poller has gone on to the sleep that ends its cycle.
C22_FullQueueDropsNew ==
  /\ [](\A q \in WsQueues : Len(ws_q[q]) <= WsCapOf(q))
  /\ [][\A q \in WsQueues :
          LET made == {m \in Produced : m.q = q}
              room == WsCapOf(q) - Len(ws_q[q])
          IN /\ IsPrefix(ws_q[q], ws_q'[q])
             /\ Len(ws_q'[q]) = Len(ws_q[q]) + Min(room, Cardinality(made))
             /\ \A m \in made :
                  /\ (m.n \in Range(ws_q'[q])) # ([q |-> q, n |-> m.n] \in ws_dropped')
                  /\ [q |-> q, n |-> m.n] \in ws_dropped'
                       <=> m.n - ws_next >= room
                  /\ q = "positions" => poll_pc' = "sleep"]_vars

\* one cycle of the positions poller lost both its messages on the full queue,
\* and the poller sleeps until its next cycle
C22_Witness ==
  /\ \E d1, d2 \in ws_dropped :
       /\ d1.q = "positions" /\ d2.q = "positions" /\ d2.n = d1.n + 1
       /\ poll_log[d1.n].at = poll_log[d2.n].at
  /\ Len(ws_q["positions"]) = PositionsQCap
  /\ poll_pc = "sleep"

\* C23: the locator is always at a step of its loop; a store call that raises
\* (fetch, window, insert) leads to a pause that ends ERROR_PAUSE_S later and
\* keeps every position row; the only step out of the pause is the start of the
\* next tick, not before the pause is over; no step ever removes a position row.
C23_TickErrorPausesAndGoesOn ==
  /\ [](loc_pc \in {"fetch", "throttle", "window", "insert", "sleep", "pause"})
  /\ [][/\ IsPrefix(positions, positions')
        /\ (loc_pc # "pause" /\ loc_pc' = "pause")
             => /\ loc_pc \in {"fetch", "window", "insert"}
                /\ loc_wake' = loc_mono + ERROR_PAUSE_S
                /\ positions' = positions
        /\ (loc_pc = "pause" /\ loc_pc' # "pause")
             => /\ loc_pc' = "fetch"
                /\ loc_mono >= loc_wake
                /\ positions' = positions]_vars

\* a tick inserted a row for one uid and failed on the next one; the loop is
\* in its pause and the row is there
C23_Witness ==
  /\ loc_pc = "pause"
  /\ positions # <<>>
  /\ positions[Len(positions)].emit_m = loc_mono
  /\ loc_wake = loc_mono + ERROR_PAUSE_S

\* what the claim calls a message that is kept: JSON object, a topic of one of
\* the three kinds, and the required fields of that kind
WellFormed(raw) ==
  /\ raw.json = "object"
  /\ \/ /\ topic_kind(raw.topic) = "scans"
        /\ raw.anchor_id # NoId /\ raw.uid # NoId /\ raw.rssi # NoRssi
     \/ topic_kind(raw.topic) = "status" /\ raw.anchor_id # NoId
     \/ topic_kind(raw.topic) = "events" /\ raw.uid # NoId /\ raw.type # NoType

\* the messages in the queue, the buffer, the table or the full-queue drops of kind k
HeldAs(k) ==
  Ns(QueueOf(k)) \cup Ns(BufOf(k)) \cup Ns(TableOf(k)) \cup {d.n : d \in {x \in dropped : x.kind = k}}

\* C24: a message that is no JSON object, lacks a required field or has an
\* unknown topic is nowhere in the ingestor; every other message, whatever came
\* before it, is held under the kind of its topic and under no other (queue,
\* buffer, table, or dropped on a full queue); the callback has never raised and
\* the bus client is still connected.
C24_InvalidDroppedValidKept ==
  /\ exc = "none" /\ mqtt_connected
  /\ \A n \in 1..Len(received) :
       \A k \in Kinds :
         n \in HeldAs(k) <=> (WellFormed(received[n]) /\ k = topic_kind(received[n].topic))

\* a message that was not kept, then a scan that reached its table
C24_Witness ==
  /\ Len(received) >= 2
  /\ ~WellFormed(received[1])
  /\ WellFormed(received[2]) /\ 2 \in Ns(scans)

\* C25 (as claimed): a reload of the known-ID cache that fails inside a flush
\* leaves the cache as it was and the flush goes on with it: the failure never
\* ends the flush or the run.
C25_ReloadFailureKeepsFlush == ~(exc = "reload_failed" /\ pc = "crashed")

\* C26 (as claimed): in a flush of any kind an FK violation of the bulk insert
\* is answered by the row-by-row retry and the flush returns: no flush, and so
\* no run, is ended by an FK violation.
C26_FkViolationRetried == exc # "fk_violation"

\* C27 (as claimed): when a connect or a poll cycle of the positions poller
\* fails, the poller drops its connection and waits 5 s before it connects again.
C27_ReconnectAfterFiveSeconds ==
  [][(poll_pc \in {"connect", "fetch"} /\ poll_pc' = "sleep" /\ poll_connection' = 0)
       => poll_wake' >= poll_mono + 5]_vars

\* C28 (as claimed): between ticks, the throttle entry of every uid is the
\* instant of a throttle decision that ended in a Position row of that uid: a
\* tick that wrote nothing for a uid has left its entry as it was.
C28_StampOnlyWithInsert ==
  loc_pc \in {"sleep", "pause", "fetch"}
    => \A u \in DOMAIN last_written_ts_monotonic :
         \E i \in 1..Len(positions) :
           /\ positions[i].uid = u
           /\ positions[i].decided_m = last_written_ts_monotonic[u]

\* the triggers as the claim lists them, on the buffers after the drains
Trigger(sb, stb, eb) ==
  \/ mono - last_flush >= BATCH_MAX_AGE_S
  \/ Len(sb) >= BATCH_MAX_SIZE
  \/ Len(stb) >= BATCH_MAX_SIZE \div 2
  \/ Len(eb) >= BATCH_MAX_SIZE \div 2

\* the first non-empty buffer in the order scans, statuses, events
FirstKind(sb, stb, eb) ==
  IF sb # <<>> THEN "scans" ELSE IF stb # <<>> THEN "status" ELSE "events"

\* the steps of the flush decision: an iteration calls a flusher iff a buffer
\* is non-empty and a trigger fires; within a flush of the loop each flusher
\* call takes the first non-empty buffer, whole; the flush ends with all
\* buffers empty and the age reset; an iteration without a flush only appends
C29_Decision ==
  [][/\ (pc = "wait" /\ pc' # "wait")
         => /\ pc' \in {"fresh", "top"}
            /\ pc' = "fresh" <=>
                 /\ scans_buf' # <<>> \/ status_buf' # <<>> \/ events_buf' # <<>>
                 /\ Trigger(scans_buf', status_buf', events_buf')
            /\ pc' = "top" => /\ IsPrefix(scans_buf, scans_buf')
                              /\ IsPrefix(status_buf, status_buf')
                              /\ IsPrefix(events_buf, events_buf')
     /\ (pc # "fresh" /\ pc' = "fresh" /\ phase' = "loop")
         => /\ fkind' = FirstKind(scans_buf', status_buf', events_buf')
            /\ Ns(IF fkind' = "scans" THEN scans_buf'
                  ELSE IF fkind' = "status" THEN status_buf' ELSE events_buf') \subseteq handed'
     /\ (pc = "returned" /\ pc' = "top")
         => /\ scans_buf' = <<>> /\ status_buf' = <<>> /\ events_buf' = <<>>
            /\ last_flush' = mono]_vars

\* C29: an iteration of the main loop flushes iff a buffer is non-empty and a
\* trigger fires; a flush hands every non-empty buffer to its flusher in the
\* order scans, statuses, events, empties all of them and resets the age (so
\* outside a flusher call no batch handed to a flusher is still in its
\* buffer); without a trigger the buffers only grow by appending.
C29_FlushIffTriggered ==
  /\ C29_Decision
  /\ [](phase = "loop" /\ pc \notin {"fresh", "insert", "retry", "returned"}
         => \A m \in handed : m \notin Ns(scans_buf) \cup Ns(status_buf) \cup Ns(events_buf))

\* a record one of whose gated ids is in the store but not in the cache
RegisteredUnknown(k, m) ==
  CASE k = "scans"  -> \/ m.anchor_id \in dbAnchors \ known.anchors
                       \/ m.uid \in dbWearables \ known.wearables
    [] k = "status" -> m.anchor_id \in dbAnchors \ known.anchors
    [] k = "events" -> m.uid \in dbWearables \ known.wearables

\* C30: ensure_fresh replaces the anchor set, the wearable set and the
\* last-loaded instant by what the store holds now iff the cache is at least
\* IDS_REFRESH_S old on the monotonic clock, and leaves all three alone when it
\* is younger; nothing else changes the cache. So in a flush with a younger
\* cache a record with an id registered after the last load is dropped, and in
\* a flush at or after the refresh age every record whose ids are in the
\* store (and whose ts can be coerced) is kept.
C30_RefreshIffAged ==
  [][/\ (pc = "fresh" /\ pc' \in {"insert", "returned"})
         => /\ IF mono - known.last_loaded_s >= IDS_REFRESH_S
               THEN known' = [anchors |-> dbAnchors, wearables |-> dbWearables,
                              last_loaded_s |-> mono]
               ELSE known' = known
            /\ \A i \in 1..Len(BufOf(fkind)) :
                 LET m == BufOf(fkind)[i]
                 IN /\ (mono - known.last_loaded_s < IDS_REFRESH_S /\ RegisteredUnknown(fkind, m))
                        => m.n \notin Ns(valid')
                    /\ (mono - known.last_loaded_s >= IDS_REFRESH_S /\ FkHolds(fkind, m)
                        /\ ~CoerceRaises(m.ts, allow_fallback))
                        => m.n \in Ns(valid')
     /\ known' # known
         => pc = "fresh" /\ mono - known.last_loaded_s >= IDS_REFRESH_S]_vars

\* flush_scans returned with a young cache: anchor Z was registered after the
\* last load, and the scan that names it (wearable known) was skipped
C30_Witness ==
  /\ pc = "returned" /\ fkind = "scans" /\ phase = "loop"
  /\ mono - known.last_loaded_s < IDS_REFRESH_S
  /\ "Z" \in dbAnchors \ known.anchors
  /\ Len(scans_buf) = 1 /\ scans_buf[1].anchor_id = "Z" /\ scans_buf[1].uid \in known.wearables
  /\ ~CoerceRaises(scans_buf[1].ts, allow_fallback)
  /\ valid = <<>> /\ skipped = 1

\* ======================================================== claims: the rest
\* C31: every successful connect of the bus client, the first one and every
\* reconnect after a lost connection, publishes the retained online status and
\* subscribes to the scan, status and event filters; so whenever the client is
\* connected the three subscriptions are in place and the retained status is
\* online, and a message is only received on a subscribed topic.
C31_SubscribedWheneverConnected ==
  /\ [](mqtt_connected => mqtt_subs = SubPatterns /\ mqtt_status = "online")
  /\ [][/\ (~mqtt_connected /\ mqtt_connected')
             => /\ mqtt_status' = "online" /\ mqtt_subs' = SubPatterns
                /\ mqtt_connects' = mqtt_connects + 1
        /\ mqtt_connects' # mqtt_connects => (~mqtt_connected /\ mqtt_connected')
        /\ Len(received') > Len(received)
             => \E pat \in SubPatterns : topic_matches(pat, received'[Len(received')].topic)]_vars

\* the client is connected for the third time, after a refused connect or a
\* lost connection in between, and a scan received after the last reconnect
\* has reached its table
C31_Witness ==
  /\ mqtt_connected /\ mqtt_connects >= 2 /\ mqtt_faults = MaxBusFaults
  /\ mqtt_subs = SubPatterns
  /\ scans # <<>>
  /\ Len(received) = MaxMsgs

\* C32: in each cycle the positions poller produces, for every uid that has a
\* row with ts later than 10 s before the cycle, exactly one message, built
\* from a row of that uid with the greatest ts among those rows, and no
\* message for any other uid; what it enqueues are messages of that cycle,
\* so at most one per uid.
C32_NewestRowPerUid ==
  [][LET made == {m \in Produced : m.q = "positions"}
         rec == {i \in 1..Len(positions) : positions[i].ts > PollNow - POSITIONS_RECENT_S}
     IN /\ \A m \in made :
             /\ m.id \in rec /\ positions[m.id].uid = m.uid /\ positions[m.id].ts = m.ts
             /\ \A j \in rec : positions[j].uid = m.uid => positions[j].ts <= m.ts
             /\ \A k \in made : k.uid = m.uid => k = m
        /\ poll_pc = "fetch" /\ poll_pc' = "sleep" /\ poll_connection' # 0
             => \A j \in rec : \E m \in made : m.uid = positions[j].uid
        /\ \A i \in (Len(ws_q["positions"]) + 1)..Len(ws_q'["positions"]) :
             \E m \in made : m.n = ws_q'["positions"][i]]_vars

\* a cycle found an older and a newer row of one uid, both of the last 10 s,
\* and produced the one message of the newer row
C32_Witness ==
  /\ Len(positions) = 2 /\ positions[1].uid = positions[2].uid
  /\ positions[1].ts < positions[2].ts
  /\ positions[1].ts > WallEpoch - POSITIONS_RECENT_S
  /\ Len(poll_log) = 1 /\ poll_log[1].id = 2 /\ poll_log[1].at = 0
  /\ poll_pc = "sleep" /\ poll_wake = POSITIONS_POLL_S

\* C33: the locator's anchor table is the one it read at its start and no
\* step changes it; an anchor added to the store later is in no position row
\* (not among its anchors, its distances, nor its nearest anchor), and a tick
\* writes a row for a uid only if a fetched scan of that uid comes from an
\* anchor of the table.
C33_AnchorsReadOnce ==
  /\ [](loc_anchors = {"A1", "A2"})
  /\ [](\A i \in 1..Len(positions) :
          /\ positions[i].anchors \subseteq {"A1", "A2"}
          /\ positions[i].anchors # {}
          /\ DOMAIN positions[i].dists = positions[i].anchors
          /\ positions[i].nearest_anchor_id \in positions[i].anchors
          /\ positions[i].num_anchors = Cardinality(positions[i].anchors))
  /\ [][/\ loc_anchors' = loc_anchors
        /\ positions' # positions
             => \E r \in Range(loc_records) :
                  r.uid = Head(loc_todo) /\ r.anchor_id \in {"A1", "A2"}]_vars

\* anchor Z was added during the run and W1 was heard by A1 and by Z in one
\* window: the row of W1 counts A1 alone
C33_Witness ==
  /\ "Z" \in dbAnchors /\ loc_anchors = {"A1", "A2"}
  /\ \E i, j \in 1..Len(scans) :
       /\ scans[i].anchor_id = "Z" /\ scans[j].anchor_id = "A1"
       /\ scans[i].uid = "W1" /\ scans[j].uid = "W1"
       /\ \E k \in 1..Len(positions) :
            /\ positions[k].uid = "W1" /\ positions[k].anchors = {"A1"}
            /\ positions[k].method = "single_anchor"
            /\ positions[k].ts >= scans[i].ts /\ positions[k].ts >= scans[j].ts

\* C34: the two sets of the known-ID cache always come from the same reload
\* (no state, whatever is interleaved with a reload, holds one refreshed set
\* beside an old one), the cache changes only when a reload completes, and
\* the filter of a batch reads both sets of the cache as it is then.
C34_ConsistentSnapshot ==
  /\ [](known_gen.anchors = known_gen.wearables)
  /\ [][/\ known' # known => (pc = "load_w" /\ pc' = "filter")
        /\ (pc = "filter" /\ pc' # "filter")
             => /\ known' = known
                /\ valid' = FilterBatch(fkind, BufOf(fkind), known, Wall)]_vars

\* wearable V was registered during the run and a reload has completed since:
\* both sets are of that reload, and the scan of V heard by A1 passed the filter
C34_Witness ==
  /\ pc = "insert" /\ fkind = "scans"
  /\ known_gen = [anchors |-> 1, wearables |-> 1]
  /\ "V" \in known.wearables /\ storeOps = 1
  /\ \E i \in 1..Len(valid) : valid[i].uid = "V"

\* what the body of the tick computes from the per-anchor items of one uid,
\* l.119-161: no result when there is none (`if not per_anchor: continue`),
\* else the one estimate
results_of(items, k) == IF items = <<>> THEN <<>> ELSE <<estimate(items, k)>>

\* the estimator is reached with no usable scan of the uid
EmptyScans ==
  /\ loc_pc = "window"
  /\ per_anchor_items(loc_records, Head(loc_todo)) = <<>>

\* C35: the position estimator applied to an empty list of scans returns the
\* zero result, x = 0, y = 0, z = 0 and quality 0.
C35_EmptyScansZeroResult ==
  EmptyScans =>
    \E i \in 1..Len(results_of(per_anchor_items(loc_records, Head(loc_todo)), top_k)) :
      LET r == results_of(per_anchor_items(loc_records, Head(loc_todo)), top_k)[i]
      IN /\ FracEq(r.x, Frac(0, 1)) /\ FracEq(r.y, Frac(0, 1))
         /\ r.z = 0 /\ FracEq(r.q_score, Frac(0, 1))

\* handler c has taken a message whose send raised
LostOne(c) == \E m \in ws_lost : m.by = c

\* C36: every message a handler removes from a queue is passed to a send, and
\* a message whose send fails is not discarded while the handler keeps
\* running: every taken message is held by its get, waits for its send, was
\* sent, or its send raised, and a handler whose send has raised starts no
\* further round of gets and takes no further message.
C36_NoLossWhileConsuming ==
  /\ [](\A t \in ws_taken :
          \/ Returned(t.n)
          \/ [n |-> t.n, by |-> t.by] \in ws_lost)
  /\ [][\A c \in Clients :
          LostOne(c) =>
            /\ ~(ws_pc[c] # "wait" /\ ws_pc'[c] = "wait")
            /\ \A t \in ws_taken' \ ws_taken : t.by # c]_vars

\* ---- the websocket handler cancelled in its loop ----
\* the handler's task is cancelled while it awaits asyncio.wait (the server
\* shuts the connection's task down): CancelledError passes both except
\* clauses, `finally` discards the client and the handler returns. asyncio.wait
\* does not cancel the tasks it waits for, and nothing else does.
WsCancel(c) ==
  /\ ws_pc[c] = "wait"
  /\ ws_clients' = ws_clients \ {c}
  /\ ws_pc' = [ws_pc EXCEPT ![c] = "exited"]
  /\ UNCHANGED <<apiRest, pollVars, ws_dropped, ws_q, ws_getters, ws_task, ws_rows, ws_out,
                 ws_sent, ws_next, ws_taken, ws_alive, ws_lost>>

NextWsCancel ==
  \/ NextWsFail
  \/ \E c \in Clients : WsCancel(c)

SpecWsCancel == InitWsRun /\ [][NextWsCancel]_vars

\* C37: when a handler exits for any reason (a failed send, an error, a
\* cancellation while it waits on the queues) none of the gets it created
\* remains outstanding, and no message is taken from a queue by a get of a
\* handler that has exited.
C37_NoWaitOutlivesHandler ==
  /\ [](\A c \in Clients :
          ws_pc[c] = "exited" =>
            \A q \in WsQueues : ws_task[c][q].st = "none" /\ c \notin Range(ws_getters[q]))
  /\ [][\A t \in ws_taken' \ ws_taken : ws_pc[t.by] # "exited"]_vars

\* a handler was cancelled in its wait, and a message enqueued afterwards was
\* taken by the get it left behind
OrphanTook ==
  \E c \in Clients, q \in WsQueues :
    /\ ws_pc[c] = "exited" /\ ws_task[c][q].st = "done"
    /\ [n |-> ws_task[c][q].item, by |-> c] \in ws_taken

\* ---- the ingestor under a burst of messages ----
\* one scan, one status and one event message, each valid and of registered ids
BurstInputs ==
  {[kind |-> "scans", anchor_id |-> "A1", uid |-> "W1", ts |-> NoTs, rssi |-> TX_POWER_DBM_AT_1M],
   [kind |-> "status", anchor_id |-> "A1", uid |-> NoId, ts |-> NoTs, rssi |-> NoRssi],
   [kind |-> "events", anchor_id |-> NoId, uid |-> "W1", ts |-> NoTs, rssi |-> NoRssi]}

\* on_message during a burst
on_burst(in) == deliver_bounded(in, MaxBurst, BurstQCap) /\ UNCHANGED received

NextBurst ==
  \/ Tick
  \/ \E in \in BurstInputs : on_burst(in)
  \/ LoopTop
  \/ WaitGot
  \/ WaitTimeout
  \/ FlushFresh
  \/ FlushInsert
  \/ AfterFlush

SpecBurst == Init /\ [][NextBurst]_vars

\* the most a buffer can hold when it is handed to a flush in the loop
BatchBound(k) ==
  IF k = "scans" THEN BATCH_MAX_SIZE + DRAIN_SCANS
  ELSE IF k = "status" THEN (BATCH_MAX_SIZE \div 2) + DRAIN_STATUS - 1
  ELSE (BATCH_MAX_SIZE \div 2) + DRAIN_EVENTS - 1

LoopStep ==
  \/ LoopTop
  \/ WaitGot
  \/ WaitTimeout
  \/ FlushFresh
  \/ FlushInsert
  \/ AfterFlush

\* time passes, the event loop resumes run() whenever its await has completed
\* (a message, the timer of wait_for), and the store answers every call
SpecIdsFair == SpecIds /\ WF_vars(Tick) /\ WF_vars(LoopStep)

\* status or event message n waits in its queue
QueuedAside(n) ==
  \/ \E i \in 1..Len(status_q) : status_q[i].n = n
  \/ \E i \in 1..Len(event_q) : event_q[i].n = n

\* the clock of the run has reached its horizon while run() waits for a timer
\* that lies beyond it
HorizonWait == pc = "wait" /\ mono = MaxTime /\ timeout_at > mono

C40_AtMostOnePollConnection ==
  /\ Cardinality(poll_conns) <= 1
  /\ poll_connection # 0 => poll_conns \subseteq {poll_connection}

====
